---- MODULE Spec2Model ----
(***************************************************************************)
(* Shift scheduling and assignment reconciliation of the volunteer         *)
(* calendar (src/src/ProfileOnboarding.tsx): the store tables              *)
(* shift_instances, shift_assignments and recurring_assignments, and one   *)
(* browser client per user with its cached week view and modal state.      *)
(*                                                                         *)
(* A JS Date is modelled as minutes since 1970-01-01 00:00 local time, a   *)
(* date key "YYYY-MM-DD" as the triple <<year, month, day>>, a string that *)
(* the code inspects character by character as a sequence of characters.   *)
(***************************************************************************)
EXTENDS Integers, Sequences, FiniteSets, TLC

VARIABLES
  shift_instances,        \* store table: rows of shift_instances
  shift_assignments,      \* store table: rows of shift_assignments
  recurring_assignments,  \* store table: rows of recurring_assignments
  nextInstanceId,         \* bigserial of shift_instances.id
  nextAssignmentId,       \* id generator of shift_assignments.id
  nextRecurringId,        \* id generator of recurring_assignments.id
  clock,                  \* new Date(): the instant the modelled operations run at
  online,                 \* the users whose browser runs the client
  templates,              \* the shift_templates rows as the clients fetched them on mount
  weekOffset,             \* per client: the displayed week
  instanceShifts,         \* per client: the displayed shifts (persisted and virtual)
  weekAssignments,        \* per client: cached active/pending assignments of the week
  notifications,          \* per client: cached notification list
  ui,                     \* per client: modal state of the React component
  volunteerRecurring,     \* per client (admin): cached patterns of the selected volunteer
  origin,                 \* history: assignment id -> the operation that inserted the row,
                          \* or the recurring pattern whose save wrote it since
  requested,              \* history: the pairs whose latest write was a self-request
  lastOp,                 \* history: the last handler that ran, with its outcome
  probe,                  \* the argument and the result of a function applied on its own
  push_subscriptions,     \* store table: rows of push_subscriptions
  notification_pref,      \* store column profiles.notification_pref, per user
  pendingLoads,           \* the week loads in flight: started, their insert not yet sent
  materialized,           \* history: shift_instances id -> the id counter its insert's
                          \* check-read saw (rows of a check-then-insert in two steps)
  pendingFetches,         \* the fetchWeekAssignments responses in flight
  fetchSeq                \* history, per client: fetches issued and newest one applied

vars == <<shift_instances, shift_assignments, recurring_assignments, nextInstanceId,
          nextAssignmentId, nextRecurringId, clock, online, weekOffset, instanceShifts,
          weekAssignments, notifications, ui, volunteerRecurring, origin, requested,
          lastOp, templates, probe, push_subscriptions, notification_pref,
          pendingLoads, materialized, pendingFetches, fetchSeq>>

\* the push tables and what is in flight between a client and the store
sideVars == <<push_subscriptions, notification_pref, pendingLoads, materialized,
              pendingFetches, fetchSeq>>

storeVars == <<shift_instances, shift_assignments, recurring_assignments, nextInstanceId,
               nextAssignmentId, nextRecurringId, clock, origin>>

\* a nullable string column or result (a day code, a role)
NULL == "null"
\* a nullable value of any other type: Null, or Some(x)
Null == <<>>
Some(x) == <<x>>
\* a nullable id: 0 stands for null (the code tests ids for truthiness)
NoId == 0

-----------------------------------------------------------------------------
(* Bounds of the model *)

\* number of shift_assignments rows ever inserted in one behaviour
MaxAssignments == 7
\* number of recurring patterns ever saved in one behaviour
MaxRecurring == 1
\* length of the assignment lists handed to the slot rendering on its own
MaxSlotRows == 3
\* number of week loads in flight at one time
MaxLoads == 2
\* fetchWeekAssignments calls one client issues
MaxFetches == 3

-----------------------------------------------------------------------------
(* Calendar: what the JS Date methods used by the code compute *)

MinutesPerDay == 1440

\* days since 1970-01-01 of a civil date; months are 1..12, a day outside the month
\* rolls over as new Date(y, m, d) does. Each step hands its results on as
\* parameters.
DaysFromEra(era, yoe, doy) ==
  era * 146097 + (yoe * 365 + yoe \div 4 - yoe \div 100 + doy) - 719468

DaysFromShiftedYear(y, mp, d) ==
  DaysFromEra(y \div 400, y - (y \div 400) * 400, (153 * mp + 2) \div 5 + d - 1)

DaysFromCivil(y0, m, d) ==
  DaysFromShiftedYear(IF m <= 2 THEN y0 - 1 ELSE y0, IF m > 2 THEN m - 3 ELSE m + 9, d)

\* the civil date <<year, month, day>> of a day number
CivilFromMonth(era, yoe, doy, mp) ==
  <<yoe + era * 400 + (IF mp >= 10 THEN 1 ELSE 0),
    IF mp < 10 THEN mp + 3 ELSE mp - 9,
    doy - (153 * mp + 2) \div 5 + 1>>

CivilFromDayOfYear(era, yoe, doy) == CivilFromMonth(era, yoe, doy, (5 * doy + 2) \div 153)

CivilFromYearOfEra(era, doe, yoe) ==
  CivilFromDayOfYear(era, yoe, doe - (365 * yoe + yoe \div 4 - yoe \div 100))

CivilFromDayOfEra(era, doe) ==
  CivilFromYearOfEra(era, doe,
     (doe - doe \div 1460 + doe \div 36524 - doe \div 146096) \div 365)

CivilFromShifted(z) == CivilFromDayOfEra(z \div 146097, z - (z \div 146097) * 146097)

CivilFromDays(z0) == CivilFromShifted(z0 + 719468)

\* new Date(year, monthIndex, day): local midnight; out-of-range days roll over
NewDate(y, m, d) == DaysFromCivil(y, m, d) * MinutesPerDay

\* Date.prototype.getDay(): 0 = Sunday
getDay(date) == ((date \div MinutesPerDay) + 4) % 7

\* new Date(c.getFullYear(), c.getMonth(), c.getDate()) for the civil date c
DateOfCivil(c) == NewDate(c[1], c[2], c[3])

startOfDay(date) == DateOfCivil(CivilFromDays(date \div MinutesPerDay))

addDays(date, amount) == date + amount * MinutesPerDay

\* new Date(c.getFullYear(), c.getMonth() + amount, c.getDate())
DateOfCivilPlusMonths(c, mi) == NewDate(c[1] + mi \div 12, (mi % 12) + 1, c[3])

MonthIndexPlus(c, amount) == DateOfCivilPlusMonths(c, (c[2] - 1) + amount)

addMonths(date, amount) ==
  MonthIndexPlus(CivilFromDays(date \div MinutesPerDay), amount) + (date % MinutesPerDay)

getDateKey(date) == CivilFromDays(date \div MinutesPerDay)

parseDateOnly(value) ==
  IF value[1] = 0 \/ value[2] = 0 \/ value[3] = 0
  THEN Null
  ELSE Some(NewDate(value[1], value[2], value[3]))

getWeekStart(baseDate, mondayFirst) ==
  LET weekdayOffset == IF mondayFirst THEN (getDay(baseDate) + 6) % 7 ELSE getDay(baseDate)
  IN addDays(startOfDay(baseDate), 0 - weekdayOffset)

DayCodeMap == <<"SU", "MO", "TU", "WE", "TH", "FR", "SA">>

\* getDayCode of a date key (the value has no "T")
getDayCode(value) ==
  IF value = Null THEN NULL
  ELSE LET date == parseDateOnly(value[1])
       IN IF date = Null THEN NULL ELSE DayCodeMap[getDay(date[1]) + 1]

\* date keys compare as the dates they name
DateLt(a, b) ==
  \/ a[1] < b[1]
  \/ a[1] = b[1] /\ a[2] < b[2]
  \/ a[1] = b[1] /\ a[2] = b[2] /\ a[3] < b[3]

DateLte(a, b) == a = b \/ DateLt(a, b)

-----------------------------------------------------------------------------
(* Strings the code reads character by character *)

Digit(n) == 48 + n

\* `${n}`.padStart(2, "0") for 0 <= n <= 99
Pad2(n) == <<Digit(n \div 10), Digit(n % 10)>>

\* the characters of the date key "YYYY-MM-DD" (4-digit years)
DateKeyChars(key) ==
  <<Digit(key[1] \div 1000), Digit((key[1] \div 100) % 10),
    Digit((key[1] \div 10) % 10), Digit(key[1] % 10), 45>>
  \o Pad2(key[2]) \o <<45>> \o Pad2(key[3])

\* one round of the loop of buildVirtualInstanceId on a 32-bit value kept as
\* two 16-bit halves: hash = ((hash << 5) - hash + code) | 0
HashStep(h, code) ==
  LET lo == 31 * h[2] + code
      hi == 31 * h[1] + lo \div 65536
  IN <<hi % 65536, lo % 65536>>

RECURSIVE HashChars(_, _)
HashChars(h, chars) ==
  IF chars = <<>> THEN h ELSE HashChars(HashStep(h, Head(chars)), Tail(chars))

\* the signed 32-bit value of the two halves
ToInt32(h) == IF h[1] >= 32768 THEN (h[1] - 65536) * 65536 + h[2] ELSE h[1] * 65536 + h[2]

buildVirtualInstanceId(templateId, dayKey) ==
  LET input == templateId \o <<45>> \o DateKeyChars(dayKey)
      hash  == ToInt32(HashChars(<<0, 0>>, input))
  IN IF hash = 0 THEN 0 - 1 ELSE IF hash > 0 THEN 0 - hash ELSE hash

-----------------------------------------------------------------------------
(* The profiles, the shift templates and the clock of the modelled run *)

\* profiles.role of each user; every user runs one browser client
Role == [v1 |-> "Regular Volunteer", v2 |-> "Lead", v3 |-> "Regular Volunteer",
         a1 |-> "Admin", v4 |-> "Regular Volunteer", v5 |-> "Regular Volunteer",
         v6 |-> "Regular Volunteer", v7 |-> "Regular Volunteer",
         v8 |-> "Regular Volunteer"]
Users == DOMAIN Role
Admins == {u \in Users : Role[u] = "Admin"}

\* shift_templates rows in the order the client holds them; an id is the sequence of
\* its characters ("t1"), a time of day the minutes since midnight
T1 == <<116, 49>>
TemplateSeq == <<[id |-> T1, title |-> "Morning", is_active |-> TRUE, rrule |-> Null,
                  start_time |-> 9 * 60, end_time |-> 11 * 60]>>
Templates == {templates[k] : k \in DOMAIN templates}

\* today = startOfDay(new Date()): Wednesday 2026-01-07
Today == NewDate(2026, 1, 7)

\* toIsoForDateAndTime(date, "HH:MM"): the instant of that time on that day
toIsoForDateAndTime(date, hhmm) == startOfDay(date) + hhmm

-----------------------------------------------------------------------------
(* Strings *)

\* a string as the sequence of its characters
Space == " "
RECURSIVE trimStart(_)
trimStart(str) ==
  IF str # <<>> /\ Head(str) = Space THEN trimStart(Tail(str)) ELSE str
RECURSIVE trimEnd(_)
trimEnd(str) ==
  IF str # <<>> /\ str[Len(str)] = Space THEN trimEnd(SubSeq(str, 1, Len(str) - 1)) ELSE str
\* the text as typed, not trimmed
trimNothing(str) == str
\* String.prototype.trim
trim(str) == trimEnd(trimStart(str))

-----------------------------------------------------------------------------
(* Recurrence rules: parseRRuleDays, parseRRuleFreq, shouldIncludeDateForTemplate *)

\* String.prototype.split(sep) for a one-character separator
RECURSIVE splitFrom(_, _, _)
splitFrom(str, sep, current) ==
  IF str = <<>> THEN <<current>>
  ELSE IF Head(str) = sep THEN <<current>> \o splitFrom(Tail(str), sep, <<>>)
  ELSE splitFrom(Tail(str), sep, Append(current, Head(str)))

split(str, sep) == splitFrom(str, sep, <<>>)

UpperMap ==
  [a |-> "A", b |-> "B", c |-> "C", d |-> "D", e |-> "E", f |-> "F", g |-> "G", h |->
   "H", i |-> "I", j |-> "J", k |-> "K", l |-> "L", m |-> "M", n |-> "N", o |-> "O",
   p |-> "P", q |-> "Q", r |-> "R", s |-> "S", t |-> "T", u |-> "U", v |-> "V", w
   |-> "W", x |-> "X", y |-> "Y", z |-> "Z"]

\* String.prototype.toUpperCase
toUpperCase(str) ==
  [i \in DOMAIN str |-> IF str[i] \in DOMAIN UpperMap THEN UpperMap[str[i]] ELSE str[i]]

\* String.prototype.startsWith
startsWith(str, prefix) ==
  Len(str) >= Len(prefix) /\ SubSeq(str, 1, Len(prefix)) = prefix

\* parts.find(part => part.trim().toUpperCase().startsWith(key)): the parts that match
partsWith(rrule, key) ==
  SelectSeq(split(rrule, ";"), LAMBDA part : startsWith(toUpperCase(trim(part)), key))

\* ...?.split("=")[1]: Null for undefined
valueOf(parts) ==
  IF parts = <<>> THEN Null
  ELSE IF Len(split(Head(parts), "=")) < 2 THEN Null
  ELSE Some(split(Head(parts), "=")[2])

\* byday.split(",").map(part => part.trim().toUpperCase()).filter(Boolean)
dayList(byday) ==
  SelectSeq([k \in DOMAIN split(byday, ",") |-> toUpperCase(trim(split(byday, ",")[k]))],
            LAMBDA part : part # <<>>)

\* parseRRuleDays(rrule): rrule is Null or Some(string); the result is the list of codes
parseRRuleDays(rrule) ==
  IF rrule = Null \/ rrule = Some(<<>>) THEN <<>>
  ELSE IF valueOf(partsWith(rrule[1], <<"B", "Y", "D", "A", "Y", "=">>)) \in {Null, Some(<<>>)} THEN <<>>
  ELSE dayList(valueOf(partsWith(rrule[1], <<"B", "Y", "D", "A", "Y", "=">>))[1])

\* parseRRuleFreq(rrule): Null for null
parseRRuleFreq(rrule) ==
  IF rrule = Null \/ rrule = Some(<<>>) THEN Null
  ELSE IF valueOf(partsWith(rrule[1], <<"F", "R", "E", "Q", "=">>)) = Null THEN Null
  ELSE Some(toUpperCase(trim(valueOf(partsWith(rrule[1], <<"F", "R", "E", "Q", "=">>))[1])))

\* a day code as the string the code compares
CodeChars ==
  [SU |-> <<"S", "U">>, MO |-> <<"M", "O">>, TU |-> <<"T", "U">>, WE |-> <<"W", "E">>,
   TH |-> <<"T", "H">>, FR |-> <<"F", "R">>, SA |-> <<"S", "A">>]

includes(list, x) == \E k \in DOMAIN list : list[k] = x

\* every date is accepted
includeEveryDate(date, template) == TRUE

shouldIncludeDateForTemplate(date, template) ==
  IF template.rrule = Null \/ template.rrule = Some(<<>>) THEN TRUE
  ELSE IF getDayCode(Some(getDateKey(date))) = NULL THEN FALSE
  ELSE IF Len(parseRRuleDays(template.rrule)) > 0
  THEN includes(parseRRuleDays(template.rrule),
                CodeChars[getDayCode(Some(getDateKey(date)))])
  ELSE IF parseRRuleFreq(template.rrule)
            \in {Some(<<"D", "A", "I", "L", "Y">>), Some(<<"W", "E", "E", "K", "L", "Y">>), Some(<<"M", "O", "N", "T", "H", "L", "Y">>)}
  THEN TRUE
  ELSE TRUE

-----------------------------------------------------------------------------
(* Store queries *)

\* PostgREST .or("starts_at.gte.A,starts_at.lt.B,shift_date.gte.C,shift_date.lt.D"):
\* the comma-separated conditions are alternatives
OrRangeLt(row, startIso, endIso, dateFrom, dateBefore) ==
  \/ row.starts_at >= startIso
  \/ row.starts_at < endIso
  \/ DateLte(dateFrom, row.shift_date)
  \/ DateLt(row.shift_date, dateBefore)

\* the same with shift_date.lte.D as the last condition
OrRangeLte(row, startIso, endIso, dateFrom, dateTo) ==
  \/ row.starts_at >= startIso
  \/ row.starts_at < endIso
  \/ DateLte(dateFrom, row.shift_date)
  \/ DateLte(row.shift_date, dateTo)

Min(S) == CHOOSE x \in S : \A y \in S : x <= y

\* the rows of the pair (shift_instance_id, volunteer_id), the upsert's conflict target
PairRows(table, instanceId, volunteerId) ==
  {r \in table : r.shift_instance_id = instanceId /\ r.volunteer_id = volunteerId}

-----------------------------------------------------------------------------
(* Store writes on shift_assignments *)

\* the role column written for a user: Lead -> lead, else regular
assignmentRole(role) == IF role = "Lead" THEN "lead" ELSE "regular"

\* the six columns every upsert of the client sends
Payload(instanceId, volunteerId, status) ==
  [shift_instance_id |-> instanceId, volunteer_id |-> volunteerId, status |-> status,
   assignment_role |-> assignmentRole(Role[volunteerId]),
   dropped_at |-> Null, dropped_reason |-> Null]

NewRow(payload, id, now) ==
  [id |-> id, shift_instance_id |-> payload.shift_instance_id,
   volunteer_id |-> payload.volunteer_id, status |-> payload.status,
   assignment_role |-> payload.assignment_role, dropped_at |-> payload.dropped_at,
   dropped_reason |-> payload.dropped_reason, notes |-> Null, created_at |-> now]

\* a plain insert: no conflict target
InsertOne(table, payload, id, now) == table \cup {NewRow(payload, id, now)}

\* an upsert whose update leaves the drop columns as they are
UpsertKeepDrop(table, payload, id, now) ==
  LET hit == PairRows(table, payload.shift_instance_id, payload.volunteer_id)
  IN IF hit = {} THEN table \cup {NewRow(payload, id, now)}
     ELSE (table \ hit) \cup
          {[r EXCEPT !.status = payload.status,
                     !.assignment_role = payload.assignment_role] : r \in hit}

\* .upsert(payload, { onConflict: "shift_instance_id,volunteer_id" }): the row of the
\* pair takes the payload's columns, or a new row is inserted
UpsertOne(table, payload, id, now) ==
  LET hit == PairRows(table, payload.shift_instance_id, payload.volunteer_id)
  IN IF hit = {} THEN table \cup {NewRow(payload, id, now)}
     ELSE (table \ hit) \cup
          {[r EXCEPT !.status = payload.status,
                     !.assignment_role = payload.assignment_role,
                     !.dropped_at = payload.dropped_at,
                     !.dropped_reason = payload.dropped_reason] : r \in hit}

\* the upsert of a list of payloads, in order; ids are handed out from `id` on
RECURSIVE UpsertAll(_, _, _, _)
UpsertAll(table, payloads, id, now) ==
  IF payloads = <<>> THEN table
  ELSE LET p   == Head(payloads)
           new == PairRows(table, p.shift_instance_id, p.volunteer_id) = {}
       IN UpsertAll(UpsertOne(table, p, id, now), Tail(payloads),
                    IF new THEN id + 1 ELSE id, now)

\* a delete of the row in place of the update
DeleteById(table, id, status, droppedAt, droppedReason) == {r \in table : r.id # id}

\* an update that sets the status and leaves the other columns
UpdateStatusOnly(table, id, status, droppedAt, droppedReason) ==
  {IF r.id = id THEN [r EXCEPT !.status = status] ELSE r : r \in table}

\* .update(columns).eq("id", id)
UpdateById(table, id, status, droppedAt, droppedReason) ==
  {IF r.id = id
   THEN [r EXCEPT !.status = status, !.dropped_at = droppedAt,
                  !.dropped_reason = droppedReason]
   ELSE r : r \in table}

\* .update({ notes }).eq("id", id)
UpdateNotesById(table, id, notes) ==
  {IF r.id = id THEN [r EXCEPT !.notes = notes] ELSE r : r \in table}

\* .update({ status: "active" }).eq("id", id)
UpdateStatusById(table, id, status) ==
  {IF r.id = id THEN [r EXCEPT !.status = status] ELSE r : r \in table}

\* the members of a set of rows as a sequence, by ascending id
RECURSIVE ById(_)
ById(S) ==
  IF S = {} THEN <<>>
  ELSE LET r == CHOOSE x \in S : \A y \in S : x.id <= y.id
       IN <<r>> \o ById(S \ {r})

-----------------------------------------------------------------------------
(* The week view of one client *)

\* the (day index, template) pairs in the order the two nested loops visit them
LoopPairs ==
  [k \in 1..(7 * Len(templates)) |->
     [i |-> (k - 1) \div Len(templates),
      template |-> templates[((k - 1) % Len(templates)) + 1]]]

weekStartOf(w) == getWeekStart(addDays(Today, w * 7), TRUE)

\* a row for every active template and day of the week, whatever the store holds
rowsForEveryPair(w) ==
  LET weekStart == weekStartOf(w)
      todo      == SelectSeq(LoopPairs, LAMBDA p : p.template.is_active)
  IN [k \in 1..Len(todo) |->
        LET day == addDays(weekStart, todo[k].i)
        IN [id |-> nextInstanceId + k - 1,
            template_id |-> todo[k].template.id,
            shift_date |-> getDateKey(day),
            starts_at |-> toIsoForDateAndTime(day, todo[k].template.start_time),
            ends_at |-> toIsoForDateAndTime(day, todo[k].template.end_time)]]

\* the rows the week load inserts: one per active template and day without a key
rowsToInsert(w) ==
  LET weekStart    == weekStartOf(w)
      weekEnd      == addDays(weekStart, 6)
      fromKey      == getDateKey(weekStart)
      beforeKey    == getDateKey(addDays(weekEnd, 1))
      existingRows == {r \in shift_instances :
                         /\ r.template_id \in {t.id : t \in Templates}
                         /\ OrRangeLt(r, weekStart, addDays(weekEnd, 1),
                                      fromKey, beforeKey)}
      existingKeys == {<<r.template_id, r.shift_date>> : r \in existingRows}
      missing(p)   == /\ p.template.is_active
                      /\ <<p.template.id, getDateKey(addDays(weekStart, p.i))>>
                           \notin existingKeys
      todo         == SelectSeq(LoopPairs, missing)
  IN [k \in 1..Len(todo) |->
        LET day == addDays(weekStart, todo[k].i)
        IN [id |-> nextInstanceId + k - 1,
            template_id |-> todo[k].template.id,
            shift_date |-> getDateKey(day),
            starts_at |-> toIsoForDateAndTime(day, todo[k].template.start_time),
            ends_at |-> toIsoForDateAndTime(day, todo[k].template.end_time)]]

Range(f) == {f[k] : k \in DOMAIN f}

\* the rows the final read returns as shifts, with no virtual shift added
persistedShown(w, rows) ==
  LET weekStart == weekStartOf(w)
      weekEnd   == addDays(weekStart, 6)
      data      == {r \in rows :
                      OrRangeLt(r, weekStart, addDays(weekEnd, 1), getDateKey(weekStart),
                                getDateKey(addDays(weekEnd, 1)))}
  IN {[instanceId |-> r.id, templateId |-> r.template_id,
       start |-> r.starts_at, end |-> r.ends_at, isVirtual |-> FALSE] : r \in data}

\* the list setInstanceShifts receives: every row the final read returns, then a
\* virtual shift for each active template and day of the week still without one
shiftsShown(w, rows) ==
  LET weekStart == weekStartOf(w)
      weekEnd   == addDays(weekStart, 6)
      fromKey   == getDateKey(weekStart)
      beforeKey == getDateKey(addDays(weekEnd, 1))
      data      == {r \in rows :
                      OrRangeLt(r, weekStart, addDays(weekEnd, 1), fromKey, beforeKey)}
      shifts    == {[instanceId |-> r.id, templateId |-> r.template_id,
                     start |-> r.starts_at, end |-> r.ends_at, isVirtual |-> FALSE]
                    : r \in data}
      existingKeys == {<<sh.templateId, getDateKey(sh.start)>> : sh \in shifts}
      fallback  == {[instanceId |-> buildVirtualInstanceId(p.template.id,
                                      getDateKey(addDays(weekStart, p.i))),
                     templateId |-> p.template.id,
                     start |-> toIsoForDateAndTime(addDays(weekStart, p.i),
                                                   p.template.start_time),
                     end |-> toIsoForDateAndTime(addDays(weekStart, p.i),
                                                 p.template.end_time),
                     isVirtual |-> TRUE]
                    : p \in {q \in Range(LoopPairs) :
                               /\ q.template.is_active
                               /\ <<q.template.id, getDateKey(addDays(weekStart, q.i))>>
                                    \notin existingKeys}}
  IN shifts \cup fallback

\* what a cached assignment holds of a row (the selected columns and the joins)
Snap(r) ==
  [id |-> r.id, shift_instance_id |-> r.shift_instance_id, volunteer_id |-> r.volunteer_id,
   status |-> r.status, assignment_role |-> r.assignment_role, notes |-> r.notes,
   created_at |-> r.created_at]

\* the map fetchWeekAssignments stores: the active and pending rows of the shown
\* instance ids; empty when nothing is shown or the query fails
fetchWeekAssignments(shifts, table, ok) ==
  IF shifts = {} \/ ~ok THEN {}
  ELSE {Snap(r) : r \in {x \in table :
                           /\ x.shift_instance_id \in {sh.instanceId : sh \in shifts}
                           /\ x.status \in {"active", "pending"}}}

\* hands back the id the shown shift carries, virtual or not
ensureShownId(shift, rows, next, lookupOk, createOk) ==
  [id |-> shift.instanceId, rows |-> rows, next |-> next]

\* ensureShiftInstance(shift): the persisted id, or NoId for null; `rows` and `next`
\* are the table and its id generator afterwards
ensureShiftInstance(shift, rows, next, lookupOk, createOk) ==
  IF ~shift.isVirtual /\ shift.instanceId > 0
  THEN [id |-> shift.instanceId, rows |-> rows, next |-> next]
  ELSE LET shiftDate == getDateKey(shift.start)
           existing  == {r.id : r \in {x \in rows : /\ x.template_id = shift.templateId
                                                     /\ x.shift_date = shiftDate}}
       IN IF ~lookupOk THEN [id |-> NoId, rows |-> rows, next |-> next]
          ELSE IF existing # {} THEN [id |-> Min(existing), rows |-> rows, next |-> next]
          ELSE IF ~createOk THEN [id |-> NoId, rows |-> rows, next |-> next]
          ELSE [id |-> next,
                rows |-> rows \cup {[id |-> next, template_id |-> shift.templateId,
                                     shift_date |-> shiftDate, starts_at |-> shift.start,
                                     ends_at |-> shift.end]},
                next |-> next + 1]

-----------------------------------------------------------------------------
(* The six capacity slots of a shift *)

rankFor(a) ==
  IF a.status = "pending" THEN 3
  ELSE IF Role[a.volunteer_id] = "Admin" THEN 0
  ELSE IF Role[a.volunteer_id] = "Lead" THEN 1
  ELSE IF a.assignment_role = "lead" THEN 1
  ELSE 2

\* the comparator handed to Array.prototype.sort: negative when left goes first
compareAssignments(left, right) ==
  IF rankFor(left) # rankFor(right) THEN rankFor(left) - rankFor(right)
  ELSE IF left.created_at < right.created_at THEN -1
  ELSE IF left.created_at > right.created_at THEN 1
  ELSE 0

\* one step of the stable sort: `a` goes behind every element that does not sort after it
insertStable(sorted, a) ==
  SelectSeq(sorted, LAMBDA e : compareAssignments(e, a) <= 0)
    \o <<a>> \o SelectSeq(sorted, LAMBDA e : compareAssignments(e, a) > 0)

\* assignmentList.slice().sort(comparator): Array.prototype.sort is stable
RECURSIVE sortedAssignments(_)
sortedAssignments(assignmentList) ==
  IF assignmentList = <<>> THEN <<>>
  ELSE insertStable(sortedAssignments(SubSeq(assignmentList, 1, Len(assignmentList) - 1)),
                    assignmentList[Len(assignmentList)])

isLead(a) ==
  \/ a.assignment_role = "lead"
  \/ Role[a.volunteer_id] = "Lead"
  \/ Role[a.volunteer_id] = "Admin"

\* sortedAssignments.find(isLead) ?? null
leadAssignment(sorted) ==
  IF SelectSeq(sorted, isLead) = <<>> THEN Null ELSE Some(Head(SelectSeq(sorted, isLead)))

regularAssignments(sorted) ==
  IF leadAssignment(sorted) = Null THEN sorted
  ELSE SelectSeq(sorted, LAMBDA a : a # leadAssignment(sorted)[1])

\* the assignment rendered in slot `index` (0..5) of a shift whose list is assignmentList
slotOf(assignmentList, index) ==
  IF index = 0 THEN leadAssignment(sortedAssignments(assignmentList))
  ELSE IF index <= Len(regularAssignments(sortedAssignments(assignmentList)))
  THEN Some(regularAssignments(sortedAssignments(assignmentList))[index])
  ELSE Null

\* .order("created_at", { ascending: true }) of the week's assignment query; rows of
\* one timestamp come in id order
FetchedBefore(l, r) ==
  \/ l.created_at < r.created_at
  \/ l.created_at = r.created_at /\ l.id <= r.id

RECURSIVE fetchedList(_)
fetchedList(S) ==
  IF S = {} THEN <<>>
  ELSE <<CHOOSE x \in S : \A y \in S : FetchedBefore(x, y)>>
         \o fetchedList(S \ {CHOOSE x \in S : \A y \in S : FetchedBefore(x, y)})

\* the assignment rendered in slot `index` of a shift, from the client's cache
slotAssignment(u, shift, index) ==
  slotOf(fetchedList({a \in weekAssignments[u] : a.shift_instance_id = shift.instanceId}),
         index)

SlotCount == 6

\* the six slots as rendered: Array.from({ length: 6 }).map((_, index) => ...)
renderedSlots(assignmentList) ==
  [k \in 1..SlotCount |-> slotOf(assignmentList, k - 1)]

\* disabled only where someone else's assignment is shown
disabledForOthersOnly(u, assignment, index) ==
  assignment # Null /\ Role[u] # "Admin" /\ assignment[1].volunteer_id # u

\* the button's disabled attribute
slotDisabled(u, assignment, index) ==
  LET hasVolunteer == assignment # Null
      isLeadCoverageSlot == index = 0 /\ ~hasVolunteer
      canClaimLeadCoverage == Role[u] \in {"Lead", "Admin"}
  IN \/ hasVolunteer /\ Role[u] # "Admin" /\ assignment[1].volunteer_id # u
     \/ isLeadCoverageSlot /\ ~canClaimLeadCoverage

-----------------------------------------------------------------------------
(* Initial state: an empty store, every client freshly mounted *)

\* `show` names the modal whose show* flag is set ("none": no modal is open);
\* assignments is the list of the "My shifts" panel, fetched when the panel opens;
\* leadSlot is history: the take-shift prompt was opened from slot 0
uiInit ==
  [show |-> "none", activeShiftInstanceId |-> NoId, takeShiftMode |-> "request",
   assignShiftInstanceId |-> NoId, dropTargetId |-> NoId, denyTargetId |-> NoId,
   notesTarget |-> NoId, removeTarget |-> NoId, selectedVolunteer |-> NULL,
   assignments |-> {}, leadSlot |-> FALSE]

\* the modal state once the open modal has closed. The target ids
\* (activeShiftInstanceId, assignShiftInstanceId, dropTargetId, denyTargetId,
\* notesTarget, removeTarget) are each written by the click that opens their modal and
\* read only by that modal's buttons, so the model holds them only while it is shown.
closed(state) == [uiInit EXCEPT !.selectedVolunteer = state.selectedVolunteer]

NoOp == [op |-> "none", user |-> NULL, instance |-> NoId, volunteer |-> NULL,
         target |-> NoId, wrote |-> FALSE, repeat |-> FALSE, blank |-> FALSE, prior |-> "none",
         leadSlot |-> FALSE, failed |-> FALSE, pushes |-> {}, pushFailed |-> FALSE,
         message |-> "none", deliveries |-> {}, now |-> 0, read |-> FALSE]

\* no function has been applied on its own
NoProbe == [fn |-> "none"]

InitState(clients) ==
  /\ shift_instances = {}
  /\ shift_assignments = {}
  /\ recurring_assignments = {}
  /\ nextInstanceId = 1
  /\ nextAssignmentId = 1
  /\ nextRecurringId = 1
  /\ clock = Today + (10 * 60)
  /\ online = clients
  /\ weekOffset = [u \in Users |-> 0]
  /\ instanceShifts = [u \in Users |-> {}]
  /\ weekAssignments = [u \in Users |-> {}]
  /\ notifications = [u \in Users |-> {}]
  /\ ui = [u \in Users |-> uiInit]
  /\ volunteerRecurring = [u \in Users |-> {}]
  /\ origin = {}
  /\ requested = {}
  /\ lastOp = NoOp
  /\ push_subscriptions = {}
  /\ notification_pref = [u \in Users |-> "email_only"]
  /\ pendingLoads = {}
  /\ materialized = {}
  /\ pendingFetches = {}
  /\ fetchSeq = [u \in Users |-> [issued |-> 0, applied |-> 0]]

InitWith(clients) ==
  /\ InitState(clients)
  /\ templates = TemplateSeq
  /\ probe = NoProbe

\* a volunteer and an admin have the app open
Init == InitWith({"v1", "a1"})

-----------------------------------------------------------------------------
(* Week view actions *)

\* the fetchShiftInstances effect for week w (on mount and on paging), followed by
\* the fetchWeekAssignments effect that the new instanceShifts triggers
LoadWeek(u, w, insertOk, readOk, fetchOk) ==
  LET todo   == rowsToInsert(w)
      rows   == IF insertOk THEN shift_instances \cup Range(todo) ELSE shift_instances
      shifts == IF readOk THEN shiftsShown(w, rows) ELSE {}
  IN /\ ui[u].show = "none"
     /\ shift_instances' = rows
     /\ nextInstanceId' = IF insertOk THEN nextInstanceId + Len(todo) ELSE nextInstanceId
     /\ weekOffset' = [weekOffset EXCEPT ![u] = w]
     /\ instanceShifts' = [instanceShifts EXCEPT ![u] = shifts]
     /\ weekAssignments' = [weekAssignments EXCEPT
                              ![u] = fetchWeekAssignments(shifts, shift_assignments, fetchOk)]
     /\ lastOp' = [NoOp EXCEPT !.op = "loadWeek", !.user = u, !.wrote = insertOk,
                                !.failed = (Len(todo) > 0 /\ ~insertOk),
                                !.read = readOk]
     /\ UNCHANGED <<shift_assignments, recurring_assignments, nextAssignmentId,
                    nextRecurringId, clock, notifications, ui, volunteerRecurring,
                    origin, requested, online, templates, probe, sideVars>>

\* the week load in two steps, as the store sees it. First step: the effect starts for
\* week w (the cleanup of the client's running effect clears its `mounted`), reads the
\* existing rows of the week and computes rowsToInsert
BeginLoadWeek(u, w) ==
  /\ ui[u].show = "none"
  /\ Cardinality(pendingLoads) < MaxLoads
  /\ (\E l \in pendingLoads : l.user = u /\ l.mounted) => w # weekOffset[u]
  /\ pendingLoads' =
       {[l EXCEPT !.mounted = (l.mounted /\ l.user # u)] : l \in pendingLoads}
         \cup {[user |-> u, w |-> w, todo |-> rowsToInsert(w), seen |-> nextInstanceId,
                 mounted |-> TRUE]}
  /\ weekOffset' = [weekOffset EXCEPT ![u] = w]
  /\ lastOp' = NoOp
  /\ UNCHANGED <<storeVars, instanceShifts, weekAssignments, notifications, ui,
                 volunteerRecurring, requested, online, templates, probe,
                 push_subscriptions, notification_pref, materialized, pendingFetches,
                 fetchSeq>>

\* second step of the week load `load`: the bulk insert of the rows computed in the
\* first step, the final read, and (if the effect is still mounted) setInstanceShifts
\* with the fetchWeekAssignments effect it triggers
FinishLoadWeek(load, insertOk, readOk, fetchOk) ==
  LET todo   == [k \in 1..Len(load.todo) |->
                   [load.todo[k] EXCEPT !.id = nextInstanceId + k - 1]]
      rows   == IF insertOk THEN shift_instances \cup Range(todo) ELSE shift_instances
      shifts == IF readOk THEN shiftsShown(load.w, rows) ELSE {}
  IN /\ load \in pendingLoads
     /\ pendingLoads' = pendingLoads \ {load}
     /\ shift_instances' = rows
     /\ nextInstanceId' = IF insertOk THEN nextInstanceId + Len(todo) ELSE nextInstanceId
     /\ materialized' = IF insertOk
                         THEN materialized
                                \cup {[id |-> r.id, seen |-> load.seen] : r \in Range(todo)}
                         ELSE materialized
     /\ instanceShifts' = IF load.mounted
                           THEN [instanceShifts EXCEPT ![load.user] = shifts]
                           ELSE instanceShifts
     /\ weekAssignments' =
          IF load.mounted
          THEN [weekAssignments EXCEPT
                  ![load.user] = fetchWeekAssignments(shifts, shift_assignments, fetchOk)]
          ELSE weekAssignments
     /\ lastOp' = [NoOp EXCEPT !.op = "loadWeek", !.user = load.user,
                                !.wrote = insertOk,
                                !.failed = (Len(todo) > 0 /\ ~insertOk),
                                !.read = readOk]
     /\ UNCHANGED <<shift_assignments, recurring_assignments, nextAssignmentId,
                    nextRecurringId, clock, notifications, ui, volunteerRecurring,
                    origin, requested, online, templates, probe, weekOffset,
                    push_subscriptions, notification_pref, pendingFetches, fetchSeq>>

\* the shift-assignments-live channel callback: refetch the week's assignments
OnAssignmentsChange(u, fetchOk) ==
  /\ weekAssignments' = [weekAssignments EXCEPT
        ![u] = fetchWeekAssignments(instanceShifts[u], shift_assignments, fetchOk)]
  /\ lastOp' = NoOp
  /\ UNCHANGED <<storeVars, weekOffset, instanceShifts, notifications, ui,
                 volunteerRecurring, requested, online, templates, probe, sideVars>>

\* the channel callback in two steps, as the network sees it. First step: the event
\* reaches client u and fetchWeekAssignments sends its query, which the store answers
\* from the rows it holds then; nothing is shown means the cache is emptied at once
IssueFetch(u, fetchOk) ==
  /\ fetchSeq[u].issued < MaxFetches
  /\ IF instanceShifts[u] = {}
       THEN /\ weekAssignments' = [weekAssignments EXCEPT ![u] = {}]
            /\ pendingFetches' = pendingFetches
            /\ fetchSeq' = [fetchSeq EXCEPT ![u] = [issued |-> @.issued + 1,
                                                     applied |-> @.issued + 1]]
       ELSE /\ weekAssignments' = weekAssignments
            /\ pendingFetches' = pendingFetches \cup
                 {[user |-> u, seq |-> fetchSeq[u].issued + 1,
                   result |-> fetchWeekAssignments(instanceShifts[u], shift_assignments,
                                                   fetchOk)]}
            /\ fetchSeq' = [fetchSeq EXCEPT ![u].issued = @ + 1]
  /\ lastOp' = NoOp
  /\ UNCHANGED <<storeVars, weekOffset, instanceShifts, notifications, ui,
                 volunteerRecurring, requested, online, templates, probe,
                 push_subscriptions, notification_pref, pendingLoads, materialized>>

\* second step: the response `fetch` arrives and setWeekAssignments stores it
DeliverFetch(fetch) ==
  /\ fetch \in pendingFetches
  /\ pendingFetches' = pendingFetches \ {fetch}
  /\ weekAssignments' = [weekAssignments EXCEPT ![fetch.user] = fetch.result]
  /\ fetchSeq' = [fetchSeq EXCEPT ![fetch.user].applied =
                                    IF fetch.seq > @ THEN fetch.seq ELSE @]
  /\ lastOp' = [NoOp EXCEPT !.op = "fetchDelivered", !.user = fetch.user,
                            !.target = fetch.seq]
  /\ UNCHANGED <<storeVars, weekOffset, instanceShifts, notifications, ui,
                 volunteerRecurring, requested, online, templates, probe,
                 push_subscriptions, notification_pref, pendingLoads, materialized>>

\* the shifts of the displayed week's day cells
dayShifts(u) ==
  LET weekStart == weekStartOf(weekOffset[u])
      cells     == {getDateKey(addDays(weekStart, i)) : i \in 0..6}
  IN {sh \in instanceShifts[u] : getDateKey(sh.start) \in cells}

\* onClick of capacity slot `index` of a shift
ClickSlot(u, shift, index, lookupOk, createOk) ==
  LET assignment == slotAssignment(u, shift, index)
      ens        == ensureShiftInstance(shift, shift_instances, nextInstanceId,
                                        lookupOk, createOk)
      resolvedInstanceId == ens.id
      assignmentList == {a \in weekAssignments[u] : a.shift_instance_id = shift.instanceId}
      alreadyOnShift == \E a \in assignmentList :
                          a.volunteer_id = u /\ a.status # "dropped"
      active == [ui[u] EXCEPT !.activeShiftInstanceId = resolvedInstanceId,
                              !.leadSlot = (index = 0)]
  IN /\ ui[u].show = "none"
     /\ shift \in dayShifts(u)
     /\ ~slotDisabled(u, assignment, index)
     /\ shift_instances' = ens.rows
     /\ nextInstanceId' = ens.next
     /\ ui' = [ui EXCEPT ![u] =
          IF resolvedInstanceId = NoId THEN ui[u]
          ELSE IF assignment = Null
          THEN IF Role[u] = "Admin"
               THEN [ui[u] EXCEPT !.assignShiftInstanceId = resolvedInstanceId,
                                  !.show = "AssignVolunteer"]
               ELSE IF index = 0 /\ Role[u] # "Lead" THEN ui[u]
               ELSE IF alreadyOnShift THEN [active EXCEPT !.show = "TakeShiftPrompt"]
               ELSE [active EXCEPT !.takeShiftMode = "request",
                                   !.show = "TakeShiftPrompt"]
          ELSE IF assignment[1].volunteer_id = u /\ Role[u] # "Admin"
          THEN [ui[u] EXCEPT !.dropTargetId = assignment[1].id, !.show = "DropConfirm"]
          ELSE IF Role[u] = "Admin"
          THEN [ui[u] EXCEPT !.notesTarget = assignment[1].id,
                             !.show = "AssignmentNotes"]
          ELSE ui[u]]
     /\ lastOp' = NoOp
     /\ UNCHANGED <<shift_assignments, recurring_assignments, nextAssignmentId,
                    nextRecurringId, clock, weekOffset, instanceShifts, weekAssignments,
                    notifications, volunteerRecurring, origin, requested, online, templates, probe, sideVars>>

\* the Close / No / Cancel button of the open modal
CloseModal(u) ==
  /\ ui[u].show # "none"
  /\ ui' = [ui EXCEPT ![u] = closed(ui[u])]
  /\ lastOp' = NoOp
  /\ UNCHANGED <<storeVars, weekOffset, instanceShifts, weekAssignments, notifications,
                 volunteerRecurring, requested, online, templates, probe, sideVars>>

-----------------------------------------------------------------------------
(* Assignment handlers *)

\* what supabase.functions.invoke("send-push" / "send-admin-push") resolves to
PushSent == [error |-> FALSE, skipped |-> FALSE, sent |-> 1]
PushError == [error |-> TRUE, skipped |-> FALSE, sent |-> 0]
PushSkipped == [error |-> FALSE, skipped |-> TRUE, sent |-> 0]
PushNotDelivered == [error |-> FALSE, skipped |-> FALSE, sent |-> 0]
PushResponses == {PushSent, PushError, PushSkipped, PushNotDelivered}

\* sendVolunteerPush: the pushError it returns (TRUE for a message, FALSE for null)
sendVolunteerPush(response) ==
  IF response.error THEN TRUE
  ELSE IF response.skipped THEN TRUE
  ELSE IF response.sent <= 0 THEN TRUE
  ELSE FALSE

\* sendAdminDropPush: the pushError it returns
sendAdminDropPush(response) == response.error

\* the recipient of send-admin-push
AdminsTopic == "admins"

\* the pushes are invoked whatever the write returned
pushesRegardless(written, recipients) == recipients

\* the handlers return on a store error before they reach their pushes
pushesInvoked(written, recipients) == IF written THEN recipients ELSE {}

\* the message a handler leaves in its modal: the store's error, the push warning
\* ("..., but push notification failed: ...") or none
messageLeft(failed, pushError) ==
  IF failed THEN "error" ELSE IF pushError THEN "warning" ELSE "none"

\* history: the stored status of the row(s) an operation is about to write
priorStatus(rows) == IF rows = {} THEN "none" ELSE (CHOOSE r \in rows : TRUE).status

\* the store has room for n more assignment rows
CanInsert(n) == nextAssignmentId + n <= MaxAssignments + 1

Pair(instanceId, volunteerId) == <<instanceId, volunteerId>>

\* the status handleConfirmTakeShift writes
nextStatus(mode) == IF mode = "join" THEN "active" ELSE "pending"

\* the client-side check of handleConfirmTakeShift against its cached week
existingAssignment(u) ==
  \E a \in weekAssignments[u] :
     /\ a.shift_instance_id = ui[u].activeShiftInstanceId
     /\ a.volunteer_id = u
     /\ a.status # "dropped"

\* the "Request to be Added" / "Join shift" button of the take-shift prompt
handleConfirmTakeShift(u, writeOk, fetchOk) ==
  LET inst    == ui[u].activeShiftInstanceId
      payload == Payload(inst, u, nextStatus(ui[u].takeShiftMode))
      isNew   == PairRows(shift_assignments, inst, u) = {}
      tries   == inst # NoId /\ ~existingAssignment(u)
      writes  == tries /\ writeOk
      table   == IF writes
                 THEN UpsertOne(shift_assignments, payload, nextAssignmentId, clock)
                 ELSE shift_assignments
      inserts == writes /\ isNew
  IN /\ ui[u].show = "TakeShiftPrompt"
     /\ inserts => CanInsert(1)
     /\ shift_assignments' = table
     /\ nextAssignmentId' = IF inserts THEN nextAssignmentId + 1 ELSE nextAssignmentId
     /\ clock' = clock
     /\ origin' = IF inserts THEN origin \cup {[id |-> nextAssignmentId, by |-> "take", pattern |-> NoId]} ELSE origin
     /\ ui' = [ui EXCEPT ![u] = IF writes THEN closed(ui[u]) ELSE ui[u]]
     /\ weekAssignments' = [weekAssignments EXCEPT ![u] =
          IF writes THEN fetchWeekAssignments(instanceShifts[u], table, fetchOk)
          ELSE weekAssignments[u]]
     /\ requested' = IF writes THEN
                        (IF ui[u].takeShiftMode = "request"
                         THEN requested \cup {Pair(inst, u)}
                         ELSE requested \ {Pair(inst, u)})
                     ELSE requested
     /\ lastOp' = [NoOp EXCEPT !.op = "takeShift", !.user = u, !.instance = inst,
                               !.volunteer = u, !.wrote = writes,
                               !.leadSlot = ui[u].leadSlot,
                               !.failed = (tries /\ ~writeOk),
                               !.pushes = pushesInvoked(
                                            writes /\ ui[u].takeShiftMode = "request",
                                            {AdminsTopic}),
                               !.message = messageLeft(tries /\ ~writeOk, FALSE),
                               !.repeat = (/\ ui[u].takeShiftMode = "request"
                                           /\ Pair(inst, u) \in requested),
                               !.prior = priorStatus(PairRows(shift_assignments, inst, u))]
     /\ UNCHANGED <<shift_instances, recurring_assignments, nextInstanceId,
                    nextRecurringId, weekOffset, instanceShifts, notifications,
                    volunteerRecurring, online, templates, probe, sideVars>>

\* a row of the "Add volunteer to shift" list
handleAssignVolunteer(u, volunteerId, writeOk, push, fetchOk) ==
  LET inst    == ui[u].assignShiftInstanceId
      payload == Payload(inst, volunteerId, "active")
      isNew   == PairRows(shift_assignments, inst, volunteerId) = {}
      writes  == inst # NoId /\ writeOk
      table   == IF writes
                 THEN UpsertOne(shift_assignments, payload, nextAssignmentId, clock)
                 ELSE shift_assignments
      inserts == writes /\ isNew
  IN /\ ui[u].show = "AssignVolunteer"
     /\ inserts => CanInsert(1)
     /\ shift_assignments' = table
     /\ nextAssignmentId' = IF inserts THEN nextAssignmentId + 1 ELSE nextAssignmentId
     /\ clock' = clock
     /\ origin' = IF inserts THEN origin \cup {[id |-> nextAssignmentId, by |-> "assign", pattern |-> NoId]} ELSE origin
     /\ ui' = [ui EXCEPT ![u] =
          IF writes /\ ~sendVolunteerPush(push)
          THEN closed(ui[u])
          ELSE ui[u]]
     /\ weekAssignments' = [weekAssignments EXCEPT ![u] =
          IF writes THEN fetchWeekAssignments(instanceShifts[u], table, fetchOk)
          ELSE weekAssignments[u]]
     /\ requested' = IF writes THEN requested \ {Pair(inst, volunteerId)} ELSE requested
     /\ lastOp' = [NoOp EXCEPT !.op = "assign", !.user = u, !.instance = inst,
                               !.volunteer = volunteerId, !.wrote = writes,
                               !.failed = (inst # NoId /\ ~writeOk),
                               !.pushes = pushesInvoked(writes, {volunteerId}),
                               !.pushFailed = (writes /\ sendVolunteerPush(push)),
                               !.message = messageLeft(inst # NoId /\ ~writeOk,
                                                       writes /\ sendVolunteerPush(push)),
                               !.prior = priorStatus(PairRows(shift_assignments, inst,
                                                              volunteerId))]
     /\ UNCHANGED <<shift_instances, recurring_assignments, nextInstanceId,
                    nextRecurringId, weekOffset, instanceShifts, notifications,
                    volunteerRecurring, online, templates, probe, sideVars>>

-----------------------------------------------------------------------------
(* Notifications: approve and deny *)

\* the list fetchNotifications stores: for an admin the pending and dropped rows, for
\* anyone else their own active and dropped rows
fetchNotifications(u, table) ==
  IF Role[u] = "Admin"
  THEN {Snap(r) : r \in {x \in table : x.status \in {"pending", "dropped"}}}
  ELSE {Snap(r) : r \in {x \in table : /\ x.volunteer_id = u
                                        /\ x.status \in {"active", "dropped"}}}

\* the list the approve and deny handlers store afterwards: .eq("status", "pending")
pendingRequests(table) == {Snap(r) : r \in {x \in table : x.status = "pending"}}

OpenNotifications(u) ==
  /\ notifications' = [notifications EXCEPT ![u] = fetchNotifications(u, shift_assignments)]
  /\ lastOp' = NoOp
  /\ UNCHANGED <<storeVars, weekOffset, instanceShifts, weekAssignments, ui,
                 volunteerRecurring, requested, online, templates, probe, sideVars>>

RemovedByAdmin == <<"R", "e", "m", "o", "v", "e", "d", " ", "b", "y", " ",
                    "a", "d", "m", "i", "n">>

\* the Approve / Deny button of a request card (rendered for an admin, for a cached
\* item whose status is not dropped)
handleNotificationDecision(u, assignmentId, decision, writeOk, push, fetchOk) ==
  LET writes == decision = "approve" /\ writeOk
      approvedVolunteerId == {request.volunteer_id :
                                request \in {x \in notifications[u] : x.id = assignmentId}}
      pair   == {Pair(r.shift_instance_id, r.volunteer_id) :
                   r \in {x \in shift_assignments : x.id = assignmentId}}
      table  == IF writes THEN UpdateStatusById(shift_assignments, assignmentId, "active")
                ELSE shift_assignments
  IN /\ Role[u] = "Admin"
     /\ ui[u].show = "none"
     /\ \E request \in notifications[u] :
           request.id = assignmentId /\ request.status # "dropped"
     /\ shift_assignments' = table
     /\ ui' = [ui EXCEPT ![u] =
          IF decision = "deny"
          THEN [ui[u] EXCEPT !.denyTargetId = assignmentId, !.show = "DenyPrompt"]
          ELSE ui[u]]
     /\ notifications' = [notifications EXCEPT ![u] =
          IF writes THEN pendingRequests(table) ELSE notifications[u]]
     /\ weekAssignments' = [weekAssignments EXCEPT ![u] =
          IF writes THEN fetchWeekAssignments(instanceShifts[u], table, fetchOk)
          ELSE weekAssignments[u]]
     /\ requested' = IF writes THEN requested \ pair ELSE requested
     /\ lastOp' = IF decision = "approve"
                  THEN [NoOp EXCEPT !.op = "approve", !.user = u, !.target = assignmentId,
                                    !.wrote = writes, !.failed = ~writeOk,
                                    !.pushes = pushesInvoked(writes, approvedVolunteerId),
                                    !.pushFailed = (/\ writes /\ approvedVolunteerId # {}
                                                    /\ sendVolunteerPush(push)),
                                    !.message = messageLeft(~writeOk,
                                                  /\ writes /\ approvedVolunteerId # {}
                                                  /\ sendVolunteerPush(push)),
                                    !.prior = priorStatus({x \in shift_assignments :
                                                             x.id = assignmentId})]
                  ELSE NoOp
     /\ UNCHANGED <<shift_instances, recurring_assignments, nextInstanceId,
                    nextAssignmentId, nextRecurringId, clock, origin, weekOffset,
                    instanceShifts, volunteerRecurring, online, templates, probe, sideVars>>

\* the "Deny request" button of the deny prompt; denyReason is the text typed
handleConfirmDeny(u, denyReason, writeOk, fetchOk) ==
  LET id     == ui[u].denyTargetId
      tries  == id # NoId /\ trim(denyReason) # <<>>
      writes == tries /\ writeOk
      pair   == {Pair(r.shift_instance_id, r.volunteer_id) :
                   r \in {x \in shift_assignments : x.id = id}}
      table  == IF writes
                THEN UpdateById(shift_assignments, id, "dropped", Some(clock),
                                Some(trim(denyReason)))
                ELSE shift_assignments
  IN /\ ui[u].show = "DenyPrompt"
     /\ shift_assignments' = table
     /\ clock' = clock
     /\ ui' = [ui EXCEPT ![u] =
          IF writes THEN closed(ui[u]) ELSE ui[u]]
     /\ notifications' = [notifications EXCEPT ![u] =
          IF writes THEN pendingRequests(table) ELSE notifications[u]]
     /\ weekAssignments' = [weekAssignments EXCEPT ![u] =
          IF writes THEN fetchWeekAssignments(instanceShifts[u], table, fetchOk)
          ELSE weekAssignments[u]]
     /\ requested' = IF writes THEN requested \ pair ELSE requested
     /\ lastOp' = [NoOp EXCEPT !.op = "deny", !.user = u, !.target = id,
                               !.wrote = writes, !.failed = (tries /\ ~writeOk),
                               !.pushes = pushesInvoked(writes, {}),
                               !.message = IF id # NoId /\ trim(denyReason) = <<>>
                                           THEN "required"
                                           ELSE messageLeft(tries /\ ~writeOk, FALSE),
                               !.blank = (\A i \in DOMAIN denyReason :
                                                     denyReason[i] = Space),
                               !.prior = priorStatus({x \in shift_assignments : x.id = id})]
     /\ UNCHANGED <<shift_instances, recurring_assignments, nextInstanceId,
                    nextAssignmentId, nextRecurringId, origin, weekOffset,
                    instanceShifts, volunteerRecurring, online, templates, probe, sideVars>>

-----------------------------------------------------------------------------
(* Drop and remove *)

\* the rows of every volunteer in this week
fetchEveryShift(u, table, ok) ==
  IF ~ok THEN {}
  ELSE {Snap(r) : r \in {x \in table :
          /\ x.status \in {"active", "pending"}
          /\ \E i \in shift_instances :
                /\ i.id = x.shift_instance_id
                /\ startOfDay(parseDateOnly(i.shift_date)[1])
                     >= getWeekStart(startOfDay(clock), TRUE)
                /\ startOfDay(parseDateOnly(i.shift_date)[1])
                     < addDays(getWeekStart(startOfDay(clock), TRUE), 7)}}

\* fetchMyShifts: the user's own active and pending rows of the current week
fetchMyShifts(u, table, ok) ==
  IF ~ok THEN {}
  ELSE {Snap(r) : r \in {x \in table :
          /\ x.volunteer_id = u
          /\ x.status \in {"active", "pending"}
          /\ \E i \in shift_instances :
                /\ i.id = x.shift_instance_id
                /\ startOfDay(parseDateOnly(i.shift_date)[1])
                     >= getWeekStart(startOfDay(clock), TRUE)
                /\ startOfDay(parseDateOnly(i.shift_date)[1])
                     < addDays(getWeekStart(startOfDay(clock), TRUE), 7)}}

\* the "My shifts" menu item: the panel opens and its effect fetches the list
OpenMyShifts(u, fetchOk) ==
  /\ ui[u].show = "none"
  /\ ui' = [ui EXCEPT ![u] =
       [ui[u] EXCEPT !.show = "MyShifts",
                     !.assignments = fetchMyShifts(u, shift_assignments, fetchOk)]]
  /\ lastOp' = NoOp
  /\ UNCHANGED <<storeVars, weekOffset, instanceShifts, weekAssignments, notifications,
                 volunteerRecurring, requested, online, templates, probe, sideVars>>

\* a card of the "My shifts" panel
ClickMyShift(u, assignment) ==
  /\ ui[u].show = "MyShifts"
  /\ assignment \in ui[u].assignments
  /\ ui' = [ui EXCEPT ![u] =
       [closed(ui[u]) EXCEPT !.dropTargetId = assignment.id, !.show = "DropConfirm"]]
  /\ lastOp' = NoOp
  /\ UNCHANGED <<storeVars, weekOffset, instanceShifts, weekAssignments, notifications,
                 volunteerRecurring, requested, online, templates, probe, sideVars>>

\* the "Drop shift" button of the drop confirmation: an admin drops at once, anyone
\* else is asked for a reason
ConfirmDropNonAdmin(u) ==
  /\ ui[u].show = "DropConfirm"
  /\ Role[u] # "Admin"
  /\ ui' = [ui EXCEPT ![u] = [ui[u] EXCEPT !.show = "DropReason"]]
  /\ lastOp' = NoOp
  /\ UNCHANGED <<storeVars, weekOffset, instanceShifts, weekAssignments, notifications,
                 volunteerRecurring, requested, online, templates, probe, sideVars>>

\* handleDropShift: "Submit drop" of the reason prompt, or an admin's "Drop shift";
\* dropReason is the text typed
handleDropShift(u, dropReason, writeOk, push, fetchOk) ==
  LET id     == ui[u].dropTargetId
      tries  == id # NoId /\ ~(Role[u] # "Admin" /\ trim(dropReason) = <<>>)
      writes == tries /\ writeOk
      pair   == {Pair(r.shift_instance_id, r.volunteer_id) :
                   r \in {x \in shift_assignments : x.id = id}}
      reason == IF Role[u] = "Admin" THEN RemovedByAdmin ELSE trim(dropReason)
      table  == IF writes
                THEN UpdateById(shift_assignments, id, "dropped", Some(clock), Some(reason))
                ELSE shift_assignments
  IN /\ \/ ui[u].show = "DropReason"
        \/ ui[u].show = "DropConfirm" /\ Role[u] = "Admin"
     /\ shift_assignments' = table
     /\ clock' = clock
     /\ ui' = [ui EXCEPT ![u] =
          IF writes \/ ui[u].show = "DropConfirm" THEN closed(ui[u]) ELSE ui[u]]
     /\ weekAssignments' = [weekAssignments EXCEPT ![u] =
          IF writes THEN fetchWeekAssignments(instanceShifts[u], table, fetchOk)
          ELSE weekAssignments[u]]
     /\ requested' = IF writes THEN requested \ pair ELSE requested
     /\ lastOp' = [NoOp EXCEPT !.op = "drop", !.user = u, !.target = id,
                               !.wrote = writes, !.failed = (tries /\ ~writeOk),
                               !.pushes = pushesInvoked(writes, {AdminsTopic}),
                               !.pushFailed = (writes /\ sendAdminDropPush(push)),
                               !.message = IF id # NoId /\ ~tries THEN "required"
                                           ELSE messageLeft(tries /\ ~writeOk,
                                                  writes /\ sendAdminDropPush(push)),
                               !.blank = (\A i \in DOMAIN dropReason :
                                            dropReason[i] = Space)]
     /\ UNCHANGED <<shift_instances, recurring_assignments, nextInstanceId,
                    nextAssignmentId, nextRecurringId, origin, weekOffset,
                    instanceShifts, notifications, volunteerRecurring, online, templates, probe, sideVars>>

\* the "Remove volunteer" button of the notes modal
OpenRemovePrompt(u) ==
  /\ ui[u].show = "AssignmentNotes"
  /\ ui[u].notesTarget # NoId
  /\ ui' = [ui EXCEPT ![u] =
       [closed(ui[u]) EXCEPT !.removeTarget = ui[u].notesTarget, !.show = "RemovePrompt"]]
  /\ lastOp' = NoOp
  /\ UNCHANGED <<storeVars, weekOffset, instanceShifts, weekAssignments, notifications,
                 volunteerRecurring, requested, online, templates, probe, sideVars>>

\* the "Remove" button of the remove prompt
handleRemoveVolunteer(u, writeOk, adminPush, volunteerPush, fetchOk) ==
  LET id     == ui[u].removeTarget
      writes == id # NoId /\ writeOk
      removedVolunteerId == {r.volunteer_id : r \in {x \in shift_assignments : x.id = id}}
      pair   == {Pair(r.shift_instance_id, r.volunteer_id) :
                   r \in {x \in shift_assignments : x.id = id}}
      table  == IF writes
                THEN UpdateById(shift_assignments, id, "dropped", Some(clock),
                                Some(RemovedByAdmin))
                ELSE shift_assignments
  IN /\ ui[u].show = "RemovePrompt"
     /\ shift_assignments' = table
     /\ clock' = clock
     /\ ui' = [ui EXCEPT ![u] =
          IF writes THEN closed(ui[u]) ELSE ui[u]]
     /\ weekAssignments' = [weekAssignments EXCEPT ![u] =
          IF writes THEN fetchWeekAssignments(instanceShifts[u], table, fetchOk)
          ELSE weekAssignments[u]]
     /\ requested' = IF writes THEN requested \ pair ELSE requested
     /\ lastOp' = [NoOp EXCEPT !.op = "remove", !.user = u, !.target = id,
                               !.wrote = writes, !.failed = (id # NoId /\ ~writeOk),
                               !.pushes = pushesInvoked(writes, {AdminsTopic}
                                                          \cup removedVolunteerId),
                               !.pushFailed = (/\ writes
                                               /\ \/ sendAdminDropPush(adminPush)
                                                  \/ sendVolunteerPush(volunteerPush)),
                               !.message = messageLeft(id # NoId /\ ~writeOk,
                                             /\ writes
                                             /\ \/ sendAdminDropPush(adminPush)
                                                \/ sendVolunteerPush(volunteerPush))]
     /\ UNCHANGED <<shift_instances, recurring_assignments, nextInstanceId,
                    nextAssignmentId, nextRecurringId, origin, weekOffset,
                    instanceShifts, notifications, volunteerRecurring, online, templates, probe, sideVars>>

\* the "Save note" button of the notes modal; notesDraft is the text typed
handleAssignmentNotesSave(u, notesDraft, writeOk, fetchOk) ==
  LET id     == ui[u].notesTarget
      writes == id # NoId /\ writeOk
      notes  == IF trim(notesDraft) = <<>> THEN Null ELSE Some(trim(notesDraft))
      table  == IF writes THEN UpdateNotesById(shift_assignments, id, notes)
                ELSE shift_assignments
  IN /\ ui[u].show = "AssignmentNotes"
     /\ shift_assignments' = table
     /\ ui' = [ui EXCEPT ![u] = IF writes THEN closed(ui[u]) ELSE ui[u]]
     /\ weekAssignments' = [weekAssignments EXCEPT ![u] =
          IF writes THEN fetchWeekAssignments(instanceShifts[u], table, fetchOk)
          ELSE weekAssignments[u]]
     /\ lastOp' = [NoOp EXCEPT !.op = "notes", !.user = u, !.target = id,
                               !.wrote = writes, !.failed = (id # NoId /\ ~writeOk),
                               !.message = messageLeft(id # NoId /\ ~writeOk, FALSE)]
     /\ UNCHANGED <<shift_instances, recurring_assignments, nextInstanceId,
                    nextAssignmentId, nextRecurringId, clock, origin, weekOffset,
                    instanceShifts, notifications, volunteerRecurring, requested, online,
                    templates, probe, sideVars>>

-----------------------------------------------------------------------------
(* Recurring patterns (the admin's volunteer panel) *)

ProjectionMonths == 12

fetchVolunteerRecurring(volunteerId, table, ok) ==
  IF ok THEN {r \in table : r.volunteer_id = volunteerId} ELSE {}

\* a row of the volunteers list: select the volunteer; the effect loads their patterns
SelectVolunteer(u, v, fetchOk) ==
  /\ Role[u] = "Admin"
  /\ ui[u].show = "none"
  /\ ui[u].selectedVolunteer # v
  /\ ui' = [ui EXCEPT ![u] = [ui[u] EXCEPT !.selectedVolunteer = v]]
  /\ volunteerRecurring' = [volunteerRecurring EXCEPT
        ![u] = fetchVolunteerRecurring(v, recurring_assignments, fetchOk)]
  /\ lastOp' = NoOp
  /\ UNCHANGED <<storeVars, weekOffset, instanceShifts, weekAssignments, notifications,
                 requested, online, templates, probe, sideVars>>

\* the instances of a template the save and the delete read for a pattern's range
rangeInstances(templateId, startsOn, endsOn) ==
  LET rangeStart   == startsOn
      rangeEnd     == IF endsOn # Null THEN endsOn[1]
                      ELSE getDateKey(addMonths(Today, ProjectionMonths))
      startIso     == parseDateOnly(rangeStart)[1]
      endDate      == parseDateOnly(rangeEnd)[1]
      endExclusive == addDays(endDate, 1)
  IN {r \in shift_instances :
        /\ r.template_id = templateId
        /\ OrRangeLte(r, startIso, endExclusive, rangeStart, rangeEnd)}

\* the instances whose weekday code is one of the pattern's days
filteredInstances(instances, allowedDays) ==
  IF allowedDays # {}
  THEN {r \in instances :
          LET dayCode == getDayCode(Some(r.shift_date))
          IN IF dayCode # NULL THEN dayCode \in allowedDays ELSE FALSE}
  ELSE instances

\* the "Save" button of the add-recurring form; recurringForm and recurringDays are
\* what the admin entered
handleRecurringSave(u, recurringForm, recurringDays, saveOk, instancesOk, upsertOk, fetchOk) ==
  LET volunteer == ui[u].selectedVolunteer
      valid     == /\ recurringForm.templateId # <<>>
                   /\ recurringForm.startsOn # Null
                   /\ recurringDays # {}
      saved     == valid /\ saveOk
      row       == [id |-> nextRecurringId, volunteer_id |-> volunteer,
                    template_id |-> recurringForm.templateId,
                    starts_on |-> recurringForm.startsOn[1],
                    ends_on |-> recurringForm.endsOn, byday |-> recurringDays]
      patterns  == IF saved THEN recurring_assignments \cup {row} ELSE recurring_assignments
      instances == rangeInstances(recurringForm.templateId, recurringForm.startsOn[1],
                                  recurringForm.endsOn)
      filtered  == filteredInstances(instances, recurringDays)
      payloads  == [k \in 1..Cardinality(filtered) |->
                      Payload(ById(filtered)[k].id, volunteer, "active")]
      writes    == saved /\ instancesOk /\ filtered # {} /\ upsertOk
      table     == IF writes
                   THEN UpsertAll(shift_assignments, payloads, nextAssignmentId, clock)
                   ELSE shift_assignments
      newIds    == {r.id : r \in table} \ {r.id : r \in shift_assignments}
      writtenIds == IF writes
                    THEN {r.id : r \in {x \in table :
                                          /\ x.volunteer_id = volunteer
                                          /\ x.shift_instance_id \in {i.id : i \in filtered}}}
                    ELSE {}
      done      == saved /\ instancesOk /\ (filtered = {} \/ upsertOk)
  IN /\ Role[u] = "Admin"
     /\ ui[u].show = "none"
     /\ volunteer # NULL
     /\ saved => nextRecurringId <= MaxRecurring
     /\ CanInsert(Cardinality(newIds))
     /\ recurring_assignments' = patterns
     /\ nextRecurringId' = IF saved THEN nextRecurringId + 1 ELSE nextRecurringId
     /\ shift_assignments' = table
     /\ nextAssignmentId' = nextAssignmentId + Cardinality(newIds)
     /\ clock' = clock
     /\ origin' = {o \in origin : o.id \notin writtenIds}
                   \cup {[id |-> i, by |-> "recurring", pattern |-> nextRecurringId]
                          : i \in writtenIds}
     /\ volunteerRecurring' = [volunteerRecurring EXCEPT ![u] =
          IF done THEN fetchVolunteerRecurring(volunteer, patterns, fetchOk)
          ELSE volunteerRecurring[u]]
     /\ weekAssignments' = [weekAssignments EXCEPT ![u] =
          IF done THEN fetchWeekAssignments(instanceShifts[u], table, fetchOk)
          ELSE weekAssignments[u]]
     /\ requested' = IF writes
                     THEN requested \ {Pair(r.id, volunteer) : r \in filtered}
                     ELSE requested
     /\ lastOp' = [NoOp EXCEPT !.op = "recurringSave", !.user = u,
                               !.volunteer = volunteer,
                               !.target = IF saved THEN nextRecurringId ELSE NoId,
                               !.wrote = writes]
     /\ UNCHANGED <<shift_instances, nextInstanceId, weekOffset, instanceShifts,
                    notifications, ui, online, templates, probe, sideVars>>

\* the pattern delete goes ahead whatever the two earlier calls returned
reachedRegardless(found, instancesOk, instanceIds, assignmentsOk) == found # {}

\* whether handleRecurringDelete gets as far as the delete of the pattern row: the
\* pattern is listed, the instance lookup returned no error, and the assignment delete
\* (made only when the lookup returned ids) returned no error
patternDeleteReached(found, instancesOk, instanceIds, assignmentsOk) ==
  found # {} /\ instancesOk /\ (instanceIds = {} \/ assignmentsOk)

\* the "Delete" button of a listed pattern
handleRecurringDelete(u, recurringId, instancesOk, assignmentsOk, patternOk, fetchOk) ==
  LET volunteer == ui[u].selectedVolunteer
      found     == {r \in volunteerRecurring[u] : r.id = recurringId}
      target    == CHOOSE r \in found : TRUE
      instanceIds == {r.id : r \in rangeInstances(target.template_id, target.starts_on,
                                                  target.ends_on)}
      removes   == found # {} /\ instancesOk /\ instanceIds # {} /\ assignmentsOk
      table     == IF removes
                   THEN {r \in shift_assignments :
                           ~(r.volunteer_id = volunteer /\ r.shift_instance_id \in instanceIds)}
                   ELSE shift_assignments
      reached   == patternDeleteReached(found, instancesOk, instanceIds, assignmentsOk)
      patterns  == IF reached /\ patternOk
                   THEN {r \in recurring_assignments : r.id # recurringId}
                   ELSE recurring_assignments
      optimistic == {r \in volunteerRecurring[u] : r.id # recurringId}
  IN /\ Role[u] = "Admin"
     /\ ui[u].show = "none"
     /\ volunteer # NULL
     /\ shift_assignments' = table
     /\ recurring_assignments' = patterns
     /\ volunteerRecurring' = [volunteerRecurring EXCEPT ![u] =
          IF reached THEN fetchVolunteerRecurring(volunteer, patterns, fetchOk)
          ELSE optimistic]
     /\ weekAssignments' = [weekAssignments EXCEPT ![u] =
          IF reached /\ patternOk
          THEN fetchWeekAssignments(instanceShifts[u], table, fetchOk)
          ELSE weekAssignments[u]]
     /\ requested' = IF removes
                     THEN requested \ {Pair(i, volunteer) : i \in instanceIds}
                     ELSE requested
     /\ lastOp' = [NoOp EXCEPT !.op = "recurringDelete", !.user = u,
                               !.volunteer = volunteer, !.target = recurringId,
                               !.wrote = (reached /\ patternOk),
                               !.failed = (found # {} /\
                                  (~instancesOk \/ (instanceIds # {} /\ ~assignmentsOk)))]
     /\ UNCHANGED <<shift_instances, nextInstanceId, nextAssignmentId, nextRecurringId,
                    clock, origin, weekOffset, instanceShifts, notifications, ui, online, templates, probe, sideVars>>

-----------------------------------------------------------------------------
(* Push subscriptions and the push functions (send-push, send-admin-push, the shift
   reminder job) *)

\* the endpoints a browser's push service hands out
Endpoints == {"e1", "e2"}

\* the "Enable notifications" button: the browser's subscription is upserted on
\* (user_id, endpoint), then the profile's preference is set (its result is not read)
handleEnableNotifications(u, granted, endpoint, upsertOk, prefOk) ==
  LET stored == granted /\ upsertOk
  IN /\ push_subscriptions' = IF stored
                               THEN push_subscriptions
                                      \cup {[user_id |-> u, endpoint |-> endpoint]}
                               ELSE push_subscriptions
     /\ notification_pref' = IF stored /\ prefOk
                              THEN [notification_pref EXCEPT ![u] = "push_and_email"]
                              ELSE notification_pref
     /\ lastOp' = [NoOp EXCEPT !.op = "enableNotifications", !.user = u,
                               !.wrote = stored, !.failed = (granted /\ ~upsertOk)]
     /\ UNCHANGED <<storeVars, online, weekOffset, instanceShifts, weekAssignments,
                    notifications, ui, volunteerRecurring, requested, templates, probe,
                    pendingLoads, materialized, pendingFetches, fetchSeq>>

\* webpush.sendNotification resolves when the push service answers 201 and throws an
\* error carrying the answer's statusCode otherwise; an error without a statusCode
\* (a network failure) reads as status 0
Created == 201
StatusCodes == {Created, 0, 404, 410, 500}

\* every failed delivery prunes
isFailed(status) == status # Created

\* the catch block's test: status === 404 || status === 410
isGone(status) == status = 404 \/ status = 410

\* the key of a subscription row: UNIQUE (user_id, endpoint)
subKey(sub) == <<sub.user_id, sub.endpoint>>

\* the deliveries of one message to the subscriptions `subs`; out gives the answer of
\* the push service for each of them
deliveriesTo(subs, assignment, out) ==
  {[assignment |-> assignment, user_id |-> sub.user_id, endpoint |-> sub.endpoint,
    status |-> out[subKey(sub)]] : sub \in subs}

\* the table after the deletes .eq("user_id", ...).eq("endpoint", ...) of the catch blocks
pruned(table, deliveries) ==
  {r \in table : ~\E d \in deliveries :
                     /\ isGone(d.status)
                     /\ d.user_id = r.user_id
                     /\ d.endpoint = r.endpoint}

\* the send-push function, called by `requester` for the user user_id
SendPush(requester, user_id, out) ==
  LET allowed == Role[requester] \in {"Admin", "Lead"}
      skipped == notification_pref[user_id] # "push_and_email"
      subs    == {r \in push_subscriptions : r.user_id = user_id}
      deliveries == IF allowed /\ ~skipped THEN deliveriesTo(subs, NoId, out) ELSE {}
  IN /\ push_subscriptions' = pruned(push_subscriptions, deliveries)
     /\ lastOp' = [NoOp EXCEPT !.op = "send-push", !.user = requester,
                               !.volunteer = user_id, !.deliveries = deliveries,
                               !.message = IF ~allowed THEN "forbidden"
                                           ELSE IF skipped THEN "skipped" ELSE "none"]
     /\ UNCHANGED <<storeVars, online, weekOffset, instanceShifts, weekAssignments,
                    notifications, ui, volunteerRecurring, requested, templates, probe,
                    notification_pref, pendingLoads, materialized,
                    pendingFetches, fetchSeq>>

\* the send-admin-push function, called by any signed-in user
SendAdminPush(requester, out) ==
  LET adminIds == {a \in Users : /\ Role[a] = "Admin"
                                 /\ notification_pref[a] = "push_and_email"}
      subs     == {r \in push_subscriptions : r.user_id \in adminIds}
      deliveries == deliveriesTo(subs, NoId, out)
  IN /\ push_subscriptions' = pruned(push_subscriptions, deliveries)
     /\ lastOp' = [NoOp EXCEPT !.op = "send-admin-push", !.user = requester,
                               !.deliveries = deliveries]
     /\ UNCHANGED <<storeVars, online, weekOffset, instanceShifts, weekAssignments,
                    notifications, ui, volunteerRecurring, requested, templates, probe,
                    notification_pref, pendingLoads, materialized,
                    pendingFetches, fetchSeq>>

ReminderLeadMinutes == 2 * 60
ReminderWindowMinutes == 10

\* the embedded shift_instance of an assignment row under
\* .or("starts_at.gte.START,starts_at.lt.END", { foreignTable: "shift_instances" }):
\* the instance when one of the two conditions holds, null otherwise
embeddedInstance(row, start, end) ==
  LET found == {i \in shift_instances :
                  /\ i.id = row.shift_instance_id
                  /\ (i.starts_at >= start \/ i.starts_at < end)}
  IN IF found = {} THEN Null ELSE Some(CHOOSE i \in found : TRUE)

\* the reminder's targets: the active rows whose embedded instance has a starts_at
reminderTargets(now) ==
  {a \in shift_assignments :
     /\ a.status = "active"
     /\ embeddedInstance(a, now + ReminderLeadMinutes,
                          now + ReminderLeadMinutes + ReminderWindowMinutes) # Null}

\* the subscriptions the reminder job reads for its targets
reminderSubs(now) ==
  {r \in push_subscriptions : r.user_id \in {a.volunteer_id : a \in reminderTargets(now)}}

\* one run of the shift reminder job at the instant `now`; out gives the answer of the
\* push service for each subscription (the same for each message of the run)
ShiftReminder(now, out) ==
  LET deliveries == UNION {deliveriesTo({r \in reminderSubs(now) :
                                           r.user_id = a.volunteer_id}, a.id, out)
                           : a \in reminderTargets(now)}
  IN /\ push_subscriptions' = pruned(push_subscriptions, deliveries)
     /\ lastOp' = [NoOp EXCEPT !.op = "shift-reminder", !.deliveries = deliveries,
                               !.now = now]
     /\ UNCHANGED <<storeVars, online, weekOffset, instanceShifts, weekAssignments,
                    notifications, ui, volunteerRecurring, requested, templates, probe,
                    notification_pref, pendingLoads, materialized,
                    pendingFetches, fetchSeq>>

-----------------------------------------------------------------------------
(* Specifications *)

\* the reasons typed into the deny and drop prompts: "", " ", "s", " s "
Reasons == {<<>>, <<Space>>, <<"s">>, <<Space, "s", Space>>}

Monday == <<2026, 1, 5>>

\* the values entered in the add-recurring form
Form(startsOn, endsOn) == [templateId |-> T1, startsOn |-> Some(startsOn), endsOn |-> endsOn]

\* the shifts among `shifts` that fall on one of the weekdays `days`
OnDays(shifts, days) == {sh \in shifts : getDayCode(Some(getDateKey(sh.start))) \in days}

\* the reconciler on the current week, every store call of the week load succeeding
Next ==
  \/ \E u \in online : LoadWeek(u, 0, TRUE, TRUE, TRUE)
  \/ \E u \in online : OnAssignmentsChange(u, TRUE)
  \/ \E u \in online : \E shift \in OnDays(instanceShifts[u], {"MO"}) :
        \E index \in 0..(SlotCount - 1) : ClickSlot(u, shift, index, TRUE, TRUE)
  \/ \E u \in online : CloseModal(u)
  \/ \E u \in online, writeOk, fetchOk \in BOOLEAN :
        handleConfirmTakeShift(u, writeOk, fetchOk)
  \/ \E u \in online, v \in {"v1"}, writeOk \in BOOLEAN, push \in {PushSent, PushError} :
        handleAssignVolunteer(u, v, writeOk, push, TRUE)
  \/ \E u \in online \cap Admins : OpenNotifications(u)
  \/ \E u \in online : \E request \in notifications[u] :
        \E decision \in {"approve", "deny"}, writeOk \in BOOLEAN :
           handleNotificationDecision(u, request.id, decision, writeOk, PushSent, TRUE)
  \/ \E u \in online, denyReason \in Reasons, writeOk \in BOOLEAN :
        handleConfirmDeny(u, denyReason, writeOk, TRUE)
  \/ \E u \in online : ConfirmDropNonAdmin(u)
  \/ \E u \in online, dropReason \in Reasons, writeOk \in BOOLEAN :
        handleDropShift(u, dropReason, writeOk, PushSent, TRUE)
  \/ \E u \in online : OpenRemovePrompt(u)
  \/ \E u \in online, writeOk \in BOOLEAN :
        handleRemoveVolunteer(u, writeOk, PushSent, PushSent, TRUE)
  \/ \E u \in online : SelectVolunteer(u, "v1", TRUE)
  \/ \E u \in online, upsertOk \in BOOLEAN :
        handleRecurringSave(u, Form(Monday, Null), {"MO"}, TRUE, TRUE, upsertOk, TRUE)
  \/ \E u \in online : \E r \in volunteerRecurring[u] :
        handleRecurringDelete(u, r.id, TRUE, TRUE, TRUE, TRUE)

Spec == Init /\ [][Next]_vars

\* the week view when the store may refuse the bulk insert of the week's instances
\* (the client then shows virtual shifts) and the calls of ensureShiftInstance
NextVirtual ==
  \/ \E u \in online, insertOk \in BOOLEAN : LoadWeek(u, 0, insertOk, TRUE, TRUE)
  \/ \E u \in online : \E shift \in OnDays(instanceShifts[u], {"MO"}) :
        \E index \in 0..(SlotCount - 1), lookupOk, createOk \in BOOLEAN :
           ClickSlot(u, shift, index, lookupOk, createOk)
  \/ \E u \in online : CloseModal(u)
  \/ \E u \in online, writeOk \in BOOLEAN : handleConfirmTakeShift(u, writeOk, TRUE)
  \/ \E u \in online, v \in {"v1", "v2"}, writeOk \in BOOLEAN :
        handleAssignVolunteer(u, v, writeOk, PushSent, TRUE)

SpecVirtual == Init /\ [][NextVirtual]_vars

NextMonday == <<2026, 1, 12>>

\* the admin's volunteer panel next to the week view: the admin assigns the volunteer
\* to Monday and Tuesday shifts, and saves and deletes a Monday pattern that starts
\* this week or next week
InitRecurring == InitWith({"a1"})

NextRecurring ==
  \/ \E u \in online : LoadWeek(u, 0, TRUE, TRUE, TRUE)
  \/ \E u \in online : \E shift \in OnDays(instanceShifts[u], {"MO", "TU"}) :
        \E index \in 0..(SlotCount - 1) : ClickSlot(u, shift, index, TRUE, TRUE)
  \/ \E u \in online : CloseModal(u)
  \/ \E u \in online : handleAssignVolunteer(u, "v1", TRUE, PushSent, TRUE)
  \/ \E u \in online : OpenRemovePrompt(u)
  \/ \E u \in online : handleRemoveVolunteer(u, TRUE, PushSent, PushSent, TRUE)
  \/ \E u \in online : SelectVolunteer(u, "v1", TRUE)
  \/ \E u \in online, startsOn \in {Monday, NextMonday}, upsertOk \in BOOLEAN :
        handleRecurringSave(u, Form(startsOn, Null), {"MO"}, TRUE, TRUE, upsertOk, TRUE)
  \/ \E u \in online : \E r \in volunteerRecurring[u] :
        handleRecurringDelete(u, r.id, TRUE, TRUE, TRUE, TRUE)

SpecRecurring == InitRecurring /\ [][NextRecurring]_vars

\* the recurring modal with each store call of the delete free to fail
NextRecurringErrors ==
  \/ \E u \in online, w \in {0, 1} : LoadWeek(u, w, TRUE, TRUE, TRUE)
  \/ \E u \in online : \E shift \in OnDays(instanceShifts[u], {"MO"}) :
        ClickSlot(u, shift, 1, TRUE, TRUE)
  \/ \E u \in online : CloseModal(u)
  \/ \E u \in online : handleAssignVolunteer(u, "v1", TRUE, PushSent, TRUE)
  \/ \E u \in online : SelectVolunteer(u, "v1", TRUE)
  \/ \E u \in online, startsOn \in {Monday, NextMonday} :
        handleRecurringSave(u, Form(startsOn, Null), {"MO"}, TRUE, TRUE, TRUE, TRUE)
  \/ \E u \in online : \E r \in volunteerRecurring[u] :
        \E instancesOk, assignmentsOk, patternOk \in BOOLEAN :
           handleRecurringDelete(u, r.id, instancesOk, assignmentsOk, patternOk, TRUE)

SpecRecurringErrors == InitRecurring /\ [][NextRecurringErrors]_vars

\* a Lead and an admin on the week view: the Lead takes and drops Monday slots, the
\* admin adds either of them to the shift
InitLead == InitWith({"v2", "a1"})

NextLead ==
  \/ \E u \in online : LoadWeek(u, 0, TRUE, TRUE, TRUE)
  \/ \E u \in online : \E shift \in OnDays(instanceShifts[u], {"MO"}) :
        \E index \in 0..(SlotCount - 1) : ClickSlot(u, shift, index, TRUE, TRUE)
  \/ \E u \in online : CloseModal(u)
  \/ \E u \in online, writeOk \in BOOLEAN : handleConfirmTakeShift(u, writeOk, TRUE)
  \/ \E u \in online, v \in {"v2", "a1"}, writeOk \in BOOLEAN :
        handleAssignVolunteer(u, v, writeOk, PushSent, TRUE)
  \/ \E u \in online, fetchOk \in BOOLEAN : OpenMyShifts(u, fetchOk)
  \/ \E u \in online : \E assignment \in ui[u].assignments : ClickMyShift(u, assignment)
  \/ \E u \in online : ConfirmDropNonAdmin(u)
  \/ \E u \in online, dropReason \in Reasons, writeOk \in BOOLEAN :
        handleDropShift(u, dropReason, writeOk, PushSent, TRUE)

SpecLead == InitLead /\ [][NextLead]_vars

\* the assignment handlers with their pushes: a volunteer and an admin on the Monday
\* shift, every write may be refused by the store and every push may fail in each of
\* the ways sendVolunteerPush and sendAdminDropPush tell apart
NextPush ==
  \/ \E u \in online : LoadWeek(u, 0, TRUE, TRUE, TRUE)
  \/ \E u \in online : \E shift \in OnDays(instanceShifts[u], {"MO"}) :
        \E index \in {1, 2} : ClickSlot(u, shift, index, TRUE, TRUE)
  \/ \E u \in online : CloseModal(u)
  \/ \E u \in online, writeOk \in BOOLEAN : handleConfirmTakeShift(u, writeOk, TRUE)
  \/ \E u \in online, writeOk \in BOOLEAN, push \in PushResponses :
        handleAssignVolunteer(u, "v1", writeOk, push, TRUE)
  \/ \E u \in online \cap Admins : OpenNotifications(u)
  \/ \E u \in online : \E request \in notifications[u] :
        \E decision \in {"approve", "deny"}, writeOk \in BOOLEAN, push \in PushResponses :
           handleNotificationDecision(u, request.id, decision, writeOk, push, TRUE)
  \/ \E u \in online, denyReason \in {<<>>, <<"s">>}, writeOk \in BOOLEAN :
        handleConfirmDeny(u, denyReason, writeOk, TRUE)
  \/ \E u \in online : ConfirmDropNonAdmin(u)
  \/ \E u \in online, dropReason \in {<<>>, <<"s">>}, writeOk \in BOOLEAN,
           push \in {PushSent, PushError} :
        handleDropShift(u, dropReason, writeOk, push, TRUE)
  \/ \E u \in online : OpenRemovePrompt(u)
  \/ \E u \in online, writeOk \in BOOLEAN, adminPush \in {PushSent, PushError},
           volunteerPush \in PushResponses :
        handleRemoveVolunteer(u, writeOk, adminPush, volunteerPush, TRUE)

SpecPush == Init /\ [][NextPush]_vars

\* every operation that writes shift_assignments, the note edit included: a volunteer
\* and an admin on the Monday shift, the volunteer's Monday pattern saved and deleted
NextStore ==
  \/ \E u \in online : LoadWeek(u, 0, TRUE, TRUE, TRUE)
  \/ \E u \in online : \E shift \in OnDays(instanceShifts[u], {"MO"}) :
        ClickSlot(u, shift, 1, TRUE, TRUE)
  \/ \E u \in online : CloseModal(u)
  \/ \E u \in online : handleConfirmTakeShift(u, TRUE, TRUE)
  \/ \E u \in online : handleAssignVolunteer(u, "v1", TRUE, PushSent, TRUE)
  \/ \E u \in online \cap Admins : OpenNotifications(u)
  \/ \E u \in online : \E request \in notifications[u] :
        \E decision \in {"approve", "deny"} :
           handleNotificationDecision(u, request.id, decision, TRUE, PushSent, TRUE)
  \/ \E u \in online : handleConfirmDeny(u, <<"s">>, TRUE, TRUE)
  \/ \E u \in online : ConfirmDropNonAdmin(u)
  \/ \E u \in online : handleDropShift(u, <<"s">>, TRUE, PushSent, TRUE)
  \/ \E u \in online, notesDraft \in {<<Space>>, <<"s">>} :
        handleAssignmentNotesSave(u, notesDraft, TRUE, TRUE)
  \/ \E u \in online : OpenRemovePrompt(u)
  \/ \E u \in online : handleRemoveVolunteer(u, TRUE, PushSent, PushSent, TRUE)
  \/ \E u \in online : SelectVolunteer(u, "v1", TRUE)
  \/ \E u \in online :
        handleRecurringSave(u, Form(Monday, Null), {"MO"}, TRUE, TRUE, TRUE, TRUE)
  \/ \E u \in online : \E r \in volunteerRecurring[u] :
        handleRecurringDelete(u, r.id, TRUE, TRUE, TRUE, TRUE)

SpecStore == Init /\ [][NextStore]_vars

\* the answers of the push service to the deliveries to the subscriptions `subs`
Answers(subs) == [{subKey(r) : r \in subs} -> StatusCodes]

\* the instants the reminder job runs at: Monday 2026-01-05 06:50, 06:55 and 07:00
\* (the Monday shift starts at 09:00) and the instant of the client operations
ReminderTimes ==
  {NewDate(2026, 1, 5) + (6 * 60) + 50, NewDate(2026, 1, 5) + (6 * 60) + 55,
   NewDate(2026, 1, 5) + (7 * 60), Today + (10 * 60)}

\* the push functions next to the week view: the admin adds the volunteer to the Monday
\* shift or the volunteer requests it, both enable notifications on up to two
\* browsers, and the three push functions run with every answer of the push service
NextNotify ==
  \/ \E u \in online \cap Admins : LoadWeek(u, 0, TRUE, TRUE, TRUE)
  \/ \E u \in online \cap Admins : \E shift \in OnDays(instanceShifts[u], {"MO"}) :
        ClickSlot(u, shift, 1, TRUE, TRUE)
  \/ \E u \in online : handleAssignVolunteer(u, "v1", TRUE, PushSent, TRUE)
  \/ \E u \in online, endpoint \in Endpoints, granted, upsertOk, prefOk \in BOOLEAN :
        handleEnableNotifications(u, granted, endpoint, upsertOk, prefOk)
  \/ \E requester, user_id \in online :
        \E out \in Answers({r \in push_subscriptions : r.user_id = user_id}) :
           SendPush(requester, user_id, out)
  \/ \E requester \in online :
        \E out \in Answers({r \in push_subscriptions : r.user_id \in Admins}) :
           SendAdminPush(requester, out)
  \/ \E now \in ReminderTimes : \E out \in Answers(reminderSubs(now)) :
        ShiftReminder(now, out)

SpecNotify == Init /\ [][NextNotify]_vars

\* materialization by clients whose week loads overlap: a volunteer and an admin load
\* the current week, each load reads the week's rows in one step and inserts in a
\* later one; a click on a virtual shift looks the instance up
NextRace ==
  \/ \E u \in online : BeginLoadWeek(u, 0)
  \/ \E load \in pendingLoads : \E insertOk \in BOOLEAN :
        FinishLoadWeek(load, insertOk, TRUE, TRUE)
  \/ \E u \in online : \E shift \in OnDays(instanceShifts[u], {"MO"}) :
        ClickSlot(u, shift, 1, TRUE, TRUE)
  \/ \E u \in online : CloseModal(u)

SpecRace == Init /\ [][NextRace]_vars

\* the change feed: the admin assigns and removes a volunteer while the responses of
\* the volunteer's refetches travel
NextFeed ==
  \/ \E u \in online : (\A f \in pendingFetches : f.user # u) /\ LoadWeek(u, 0, TRUE, TRUE, TRUE)
  \/ \E u \in online \cap Admins : \E shift \in OnDays(instanceShifts[u], {"MO"}) :
        ClickSlot(u, shift, 1, TRUE, TRUE)
  \/ \E u \in online : handleAssignVolunteer(u, "v1", TRUE, PushSent, TRUE)
  \/ \E u \in online : OpenRemovePrompt(u)
  \/ \E u \in online : handleRemoveVolunteer(u, TRUE, PushSent, PushSent, TRUE)
  \/ \E u \in online \ Admins, fetchOk \in BOOLEAN : IssueFetch(u, fetchOk)
  \/ \E fetch \in pendingFetches : DeliverFetch(fetch)

SpecFeed == Init /\ [][NextFeed]_vars

\* the admin fills the Monday and the Tuesday shift: every click on a slot of the
\* shifts; the regular volunteers of the "Add volunteer to shift" list are added to a
\* shift in this order
AddOrder == <<"v1", "v3", "v4", "v5", "v6", "v7", "v8">>

InitCapacity == InitWith({"a1"})

NextCapacity ==
  \/ \E u \in online : LoadWeek(u, 0, TRUE, TRUE, TRUE)
  \/ \E u \in online : \E shift \in OnDays(instanceShifts[u], {"MO", "TU"}) :
        \E index \in 0..(SlotCount - 1) : ClickSlot(u, shift, index, TRUE, TRUE)
  \/ \E u \in online : CloseModal(u)
  \/ \E u \in online, k \in DOMAIN AddOrder :
        /\ Cardinality({r \in shift_assignments :
                          r.shift_instance_id = ui[u].assignShiftInstanceId}) = k - 1
        /\ handleAssignVolunteer(u, AddOrder[k], TRUE, PushSent, TRUE)

SpecCapacity == InitCapacity /\ [][NextCapacity]_vars

\* the slot rendering on its own. A row of the week's assignment query: assignment_role
\* is what the writers derive from the volunteer's role; ids are issued in creation
\* order; an admin has no pending row (no handler writes one)
SlotRow(v, status, t) ==
  [id |-> t, shift_instance_id |-> 1, volunteer_id |-> v, status |-> status,
   assignment_role |-> assignmentRole(Role[v]), created_at |-> t]

\* the volunteers of the lists: two regular volunteers, a Lead and an admin
SlotUsers == {"v1", "v2", "v3", "a1"}

SlotRows ==
  {SlotRow(v, status, t) : v \in SlotUsers, status \in {"active", "pending"},
                           t \in 1..MaxSlotRows}
    \ {SlotRow(v, "pending", t) : v \in Admins, t \in 1..MaxSlotRows}

\* the lists of one shift: one row per volunteer, no two rows of one timestamp
SlotLists ==
  {l \in UNION {[1..n -> SlotRows] : n \in 0..MaxSlotRows} :
     \A i, j \in DOMAIN l :
        i # j => l[i].volunteer_id # l[j].volunteer_id /\ l[i].created_at # l[j].created_at}

InitSlots ==
  /\ InitState({})
  /\ templates = TemplateSeq
  /\ probe \in {[fn |-> "slots", input |-> l, output |-> <<>>, done |-> FALSE] :
                  l \in SlotLists}

\* the render of the shift block
RenderSlots ==
  /\ probe.fn = "slots" /\ ~probe.done
  /\ probe' = [probe EXCEPT !.output = renderedSlots(probe.input), !.done = TRUE]
  /\ UNCHANGED <<storeVars, online, weekOffset, instanceShifts, weekAssignments,
                 notifications, ui, volunteerRecurring, requested, lastOp, templates, sideVars>>

NextSlots == RenderSlots

SpecSlots == InitSlots /\ [][NextSlots]_vars

\* materialization on its own: a template that repeats on Mondays and an inactive one;
\* a volunteer pages between this week and the next one and clicks Monday and Tuesday
\* slots, and the store may refuse the bulk insert, the final read, the lookup or the
\* single insert
T2 == <<116, 50>>
WeekTemplates ==
  <<[id |-> T1, title |-> "Morning", is_active |-> TRUE,
     rrule |-> Some(<<"F", "R", "E", "Q", "=", "W", "E", "E", "K", "L", "Y", ";", "B", "Y", "D", "A", "Y", "=", "M", "O">>),
     start_time |-> 9 * 60, end_time |-> 11 * 60],
    [id |-> T2, title |-> "Evening", is_active |-> FALSE, rrule |-> Null,
     start_time |-> 17 * 60, end_time |-> 19 * 60]>>

InitWeek ==
  /\ InitState({"v1"})
  /\ templates = WeekTemplates
  /\ probe = NoProbe

NextWeek ==
  \/ \E u \in online, w \in {0, 1}, insertOk, readOk \in BOOLEAN :
        LoadWeek(u, w, insertOk, readOk, TRUE)
  \/ \E u \in online : \E shift \in OnDays(instanceShifts[u], {"MO", "TU"}) :
        \E lookupOk, createOk \in BOOLEAN : ClickSlot(u, shift, 1, lookupOk, createOk)
  \/ \E u \in online : CloseModal(u)

SpecWeek == InitWeek /\ [][NextWeek]_vars

\* the recurrence engine on its own: an rrule as stored in shift_templates.rrule, with
\* the BYDAY set it stands for
RRuleInputs ==
  {
    \* null
    [rrule |-> Null,
     byday |-> {}],
    \* ""
    [rrule |-> Some(<<>>),
     byday |-> {}],
    \* "FREQ=WEEKLY"
    [rrule |-> Some(<<"F", "R", "E", "Q", "=", "W", "E", "E", "K", "L", "Y">>),
     byday |-> {}],
    \* "FREQ=YEARLY"
    [rrule |-> Some(<<"F", "R", "E", "Q", "=", "Y", "E", "A", "R", "L", "Y">>),
     byday |-> {}],
    \* "FREQ=WEEKLY;BYDAY=MO,WE"
    [rrule |-> Some(<<"F", "R", "E", "Q", "=", "W", "E", "E", "K", "L", "Y", ";", "B", "Y", "D", "A", "Y", "=", "M", "O", ",", "W", "E">>),
     byday |-> {"MO", "WE"}],
    \* "BYDAY=MO"
    [rrule |-> Some(<<"B", "Y", "D", "A", "Y", "=", "M", "O">>),
     byday |-> {"MO"}],
    \* "FREQ=DAILY;BYDAY=SA,SU"
    [rrule |-> Some(<<"F", "R", "E", "Q", "=", "D", "A", "I", "L", "Y", ";", "B", "Y", "D", "A", "Y", "=", "S", "A", ",", "S", "U">>),
     byday |-> {"SA", "SU"}],
    \* "freq=weekly; byday=mo, we"
    [rrule |-> Some(<<"f", "r", "e", "q", "=", "w", "e", "e", "k", "l", "y", ";", " ", "b", "y", "d", "a", "y", "=", "m", "o", ",", " ", "w", "e">>),
     byday |-> {"MO", "WE"}],
    \* "FREQ=WEEKLY;BYDAY="
    [rrule |-> Some(<<"F", "R", "E", "Q", "=", "W", "E", "E", "K", "L", "Y", ";", "B", "Y", "D", "A", "Y", "=">>),
     byday |-> {}],
    \* "FREQ=FOO;BYDAY=TU"
    [rrule |-> Some(<<"F", "R", "E", "Q", "=", "F", "O", "O", ";", "B", "Y", "D", "A", "Y", "=", "T", "U">>),
     byday |-> {"TU"}]
  }

\* the days of the window the dates are drawn from
WindowDays == 90

InitEngine ==
  /\ InitState({})
  /\ templates = TemplateSeq
  /\ probe \in {[fn |-> "include", template |-> [TemplateSeq[1] EXCEPT !.rrule = i.rrule],
                  byday |-> i.byday, date |-> Today, output |-> FALSE, done |-> FALSE] :
                  i \in RRuleInputs}

\* one call shouldIncludeDateForTemplate(date, template)
IncludeDate(date) ==
  /\ probe.fn = "include"
  /\ probe' = [probe EXCEPT !.date = date,
                            !.output = shouldIncludeDateForTemplate(date, probe.template),
                            !.done = TRUE]
  /\ UNCHANGED <<storeVars, online, weekOffset, instanceShifts, weekAssignments,
                 notifications, ui, volunteerRecurring, requested, lastOp, templates, sideVars>>

NextEngine == \E k \in 0..(WindowDays - 1) : IncludeDate(addDays(Today, k))

SpecEngine == InitEngine /\ [][NextEngine]_vars

-----------------------------------------------------------------------------
(* Properties of the assignment reconciler *)

\* the rows of the pair the last operation addressed
lastPairRows == PairRows(shift_assignments, lastOp.instance, lastOp.volunteer)

\* C1: when a volunteer has just confirmed a self-request for a shift instance they had
\* already requested, and nothing else wrote to that pair in between, the store holds
\* exactly one row for (shift_instance_id, volunteer_id) and its status is pending.
C1_SelfRequestIdempotent ==
  (lastOp.op = "takeShift" /\ lastOp.repeat) =>
     /\ Cardinality(lastPairRows) = 1
     /\ \A r \in lastPairRows : r.status = "pending"

\* the second self-request reached the store (the refetch after the first one had
\* failed, so the volunteer's cached week did not show it)
C1_Witness == lastOp.op = "takeShift" /\ lastOp.repeat /\ lastOp.wrote

\* C2: whatever the clients have done (self-request, admin-assign, approve, deny,
\* drop, remove, recurring save and delete), no (shift_instance_id, volunteer_id) pair
\* has two assignment rows that are both active or pending.
C2_OneLiveRowPerPair ==
  \A r1, r2 \in shift_assignments :
     (/\ r1.shift_instance_id = r2.shift_instance_id
      /\ r1.volunteer_id = r2.volunteer_id
      /\ r1.status # "dropped"
      /\ r2.status # "dropped") => r1 = r2

\* an admin-assign has just written to a pair whose row a self-request had created
C2_Witness ==
  /\ lastOp.op = "assign" /\ lastOp.wrote
  /\ \E r \in lastPairRows :
        r.status = "active" /\ [id |-> r.id, by |-> "take", pattern |-> NoId] \in origin

\* C3: an admin-assign of a volunteer whose row for the shift instance is dropped
\* leaves exactly one row for the pair, with status active and with dropped_at and
\* dropped_reason null.
C3_AssignClearsDrop ==
  (lastOp.op = "assign" /\ lastOp.wrote /\ lastOp.prior = "dropped") =>
     /\ Cardinality(lastPairRows) = 1
     /\ \A r \in lastPairRows :
           r.status = "active" /\ r.dropped_at = Null /\ r.dropped_reason = Null

\* an admin-assign has just been written over a dropped row
C3_Witness == lastOp.op = "assign" /\ lastOp.wrote /\ lastOp.prior = "dropped"

\* the row the last approve / deny addressed
lastTargetRows == {r \in shift_assignments : r.id = lastOp.target}

\* C4: an approve takes effect only on a row whose stored status is pending: when the
\* row is dropped at the time of the write (the admin acts on a notification list
\* fetched earlier), the approve does not turn it into active.
C4_ApproveOnlyPending ==
  (lastOp.op = "approve" /\ lastOp.wrote /\ lastOp.prior = "dropped") =>
     \A r \in lastTargetRows : r.status # "active"

\* C5: a self-request never changes an active row of (instance, acting volunteer) to
\* pending, whatever other clients wrote since the volunteer's week was fetched.
C5_RequestKeepsActive ==
  (lastOp.op = "takeShift" /\ lastOp.prior = "active") =>
     \A r \in lastPairRows : r.status = "active"

\* C6: a deny confirmed with an empty or whitespace-only reason writes nothing to
\* shift_assignments: the targeted row keeps its status, dropped_at and dropped_reason.
C6_DenyNeedsReason ==
  [][(lastOp'.op = "deny" /\ lastOp'.blank) => shift_assignments' = shift_assignments]_vars

\* a deny of a pending request has just been confirmed with a blank reason
C6_Witness ==
  /\ lastOp.op = "deny" /\ lastOp.blank /\ lastOp.prior = "pending"
  /\ \A r \in lastTargetRows : r.status = "pending"

\* the ids of the persisted shift_instances rows
persistedIds == {r.id : r \in shift_instances}

\* C7: every shift_instance_id an assignment upsert has written is the id of a
\* persisted shift_instances row, and the id a take-shift or assign modal holds (what
\* ensureShiftInstance returned to the slot click) is a positive persisted id: a click
\* for which it returned null opens no modal, so nothing is written for it.
C7_WrittenIdsPersisted ==
  /\ \A r \in shift_assignments :
        r.shift_instance_id > 0 /\ r.shift_instance_id \in persistedIds
  /\ \A u \in online :
        /\ ui[u].show = "TakeShiftPrompt" =>
              ui[u].activeShiftInstanceId > 0 /\ ui[u].activeShiftInstanceId \in persistedIds
        /\ ui[u].show = "AssignVolunteer" =>
              ui[u].assignShiftInstanceId > 0 /\ ui[u].assignShiftInstanceId \in persistedIds
  /\ (lastOp.op \in {"takeShift", "assign"} /\ lastOp.wrote) =>
        lastOp.instance > 0 /\ lastOp.instance \in persistedIds

\* an assignment has just been written for a shift that a client still shows as a
\* virtual shift (negative id): the slot click went through ensureShiftInstance
C7_Witness ==
  /\ lastOp.op \in {"takeShift", "assign"} /\ lastOp.wrote
  /\ \E sh \in instanceShifts[lastOp.user] :
        /\ sh.isVirtual /\ sh.instanceId < 0
        /\ \E r \in shift_instances :
              /\ r.id = lastOp.instance
              /\ r.template_id = sh.templateId
              /\ r.shift_date = getDateKey(sh.start)

-----------------------------------------------------------------------------
(* Properties of the recurring patterns *)

\* the pattern the last save stored
lastPattern == {r \in recurring_assignments : r.id = lastOp.target}

\* the last date of a pattern's window: min(ends_on, starts_on + 12 months)
windowEnd(pattern) ==
  LET projected == getDateKey(addMonths(parseDateOnly(pattern.starts_on)[1],
                                        ProjectionMonths))
  IN IF pattern.ends_on # Null /\ DateLt(pattern.ends_on[1], projected)
     THEN pattern.ends_on[1]
     ELSE projected

\* the volunteer's active assignments on the template's instances of a date
activeOn(volunteer, templateId, dateKey) ==
  {a \in shift_assignments :
     /\ a.volunteer_id = volunteer
     /\ a.status = "active"
     /\ \E i \in shift_instances :
           i.id = a.shift_instance_id /\ i.template_id = templateId /\ i.shift_date = dateKey}

\* C8: once a pattern has been saved and its assignments written, the volunteer has
\* exactly one active assignment on every date from starts_on through the end of the
\* window (starts_on + 12 months when there is no ends_on) whose weekday code is in
\* byday, and the pattern has written no assignment on a date of another weekday.
C8_EveryPatternDayAssigned ==
  (lastOp.op = "recurringSave" /\ lastOp.wrote) =>
     \A pattern \in lastPattern : \A k \in 0..(53 * 7) :
        LET day  == getDateKey(addDays(parseDateOnly(pattern.starts_on)[1], k))
            rows == activeOn(pattern.volunteer_id, pattern.template_id, day)
        IN DateLte(day, windowEnd(pattern)) =>
              IF getDayCode(Some(day)) \in pattern.byday
              THEN Cardinality(rows) = 1
              ELSE \A a \in rows :
                      [id |-> a.id, by |-> "recurring", pattern |-> pattern.id] \notin origin

\* C9: deleting a pattern removes every assignment row the pattern wrote and no other
\* row: the volunteer's assignments made by a self-request or an admin-assign (for
\* example on a weekday outside byday) stay.
C9_DeleteRemovesOnlyPatternRows ==
  [][(lastOp'.op = "recurringDelete" /\ lastOp'.wrote) =>
       \A r \in shift_assignments :
          r \notin shift_assignments' <=>
             [id |-> r.id, by |-> "recurring", pattern |-> lastOp'.target] \in origin]_vars

\* C10: the save of a pattern creates or changes assignments only on instances dated
\* within [starts_on, min(ends_on, starts_on + 12 months)].
C10_ExpansionWithinWindow ==
  [][lastOp'.op = "recurringSave" =>
       \A r \in shift_assignments' \ shift_assignments :
          \A pattern \in {x \in recurring_assignments' : x.id = lastOp'.target} :
             \A i \in shift_instances :
                i.id = r.shift_instance_id =>
                   /\ DateLte(pattern.starts_on, i.shift_date)
                   /\ DateLte(i.shift_date, windowEnd(pattern))]_vars

-----------------------------------------------------------------------------
(* Properties of the capacity slots *)

\* C11: a self-join activates directly: when a Lead has confirmed the take-shift prompt
\* opened from the empty lead slot (slot 0), or an admin has added themselves to a shift
\* from an empty slot, the row written for (instance, self) is active, never pending.
C11_SelfJoinActivates ==
  /\ (/\ lastOp.op = "takeShift" /\ lastOp.wrote /\ lastOp.leadSlot
      /\ Role[lastOp.user] = "Lead") =>
        /\ lastPairRows # {}
        /\ \A r \in lastPairRows : r.status = "active"
  /\ (/\ lastOp.op = "assign" /\ lastOp.wrote /\ lastOp.volunteer = lastOp.user) =>
        /\ lastPairRows # {}
        /\ \A r \in lastPairRows : r.status = "active"

\* the assignments shown, in slot order (the empty slots left out)
shownOrder(slots) ==
  [k \in 1..Len(SelectSeq(slots, LAMBDA o : o # Null)) |->
     SelectSeq(slots, LAMBDA o : o # Null)[k][1]]

\* the orderings of a list of distinct rows
Orderings(list) ==
  {q \in [DOMAIN list -> Range(list)] : Range(q) = Range(list)}

\* C12: the slot display order depends on the set of assignments only: every ordering
\* of the input list renders the same slots, and in the slots shown a pending assignment
\* never precedes an active one, an active Lead never precedes an active admin, an
\* active regular volunteer never precedes an active Lead or admin, and of two
\* assignments of the same class the one created first comes first; for A (regular,
\* t1), B (lead, t2 > t1), C (pending, t3) the slots show B, A, C.
C12_SlotOrderBySet ==
  (probe.fn = "slots" /\ probe.done) =>
     /\ \A q \in Orderings(probe.input) : renderedSlots(q) = probe.output
     /\ \A i, j \in DOMAIN shownOrder(probe.output) :
           i < j => compareAssignments(shownOrder(probe.output)[i],
                                       shownOrder(probe.output)[j]) < 0
     /\ Range(probe.input) = {SlotRow("v1", "active", 1), SlotRow("v2", "active", 2),
                              SlotRow("v3", "pending", 3)} =>
           shownOrder(probe.output) = <<SlotRow("v2", "active", 2),
                                        SlotRow("v1", "active", 1),
                                        SlotRow("v3", "pending", 3)>>

-----------------------------------------------------------------------------
(* Properties of the recurrence engine and of materialization *)

\* C13: shouldIncludeDateForTemplate(date, template) is true exactly when the
\* template's BYDAY set is empty (no rrule, or an rrule without BYDAY, whatever its
\* FREQ) or the weekday code of the date is in that set; for BYDAY = {MO, WE} it is
\* true on every Monday and Wednesday of the 90-day window and false on the other days.
C13_IncludeIffByDay ==
  (probe.fn = "include" /\ probe.done) =>
     /\ probe.output <=> (\/ probe.byday = {}
                          \/ getDayCode(Some(getDateKey(probe.date))) \in probe.byday)
     /\ probe.byday = {"MO", "WE"} =>
           (probe.output <=> getDay(probe.date) \in {1, 3})

\* the engine has rejected a Tuesday for a rule with BYDAY=MO,WE
C13_Witness ==
  /\ probe.fn = "include" /\ probe.done
  /\ probe.byday = {"MO", "WE"}
  /\ getDay(probe.date) = 2
  /\ ~probe.output

\* the (template, date) pairs of week w that the engine accepts for an active template
acceptedPairs(w) ==
  {<<p.template.id, getDateKey(addDays(weekStartOf(w), p.i))>> :
     p \in {q \in Range(LoopPairs) :
              /\ q.template.is_active
              /\ shouldIncludeDateForTemplate(addDays(weekStartOf(w), q.i), q.template)}}

\* the (template, date) pairs of the stored instances
storedPairs(rows) == {<<r.template_id, r.shift_date>> : r \in rows}

\* C14: a week load whose bulk insert succeeds inserts exactly one shift_instances row
\* for each (active template, date of the visible week) pair that the recurrence engine
\* accepts and that had no row: none for a pair the engine rejects (a Tuesday for
\* BYDAY=MO), none for an inactive template, none for a pair that already had a row.
C14_BulkInsertsAcceptedPairs ==
  [][(lastOp'.op = "loadWeek" /\ lastOp'.wrote) =>
       /\ storedPairs(shift_instances' \ shift_instances)
            = acceptedPairs(weekOffset'[lastOp'.user]) \ storedPairs(shift_instances)
       /\ Cardinality(shift_instances' \ shift_instances)
            = Cardinality(storedPairs(shift_instances' \ shift_instances))]_vars

\* C15: materialization operations (the bulk week load and the lazy
\* ensureShiftInstance of a slot click) running one at a time never leave two
\* shift_instances rows with the same (template_id, shift_date).
C15_OneInstancePerTemplateDate ==
  \A r1, r2 \in shift_instances :
     (r1.template_id = r2.template_id /\ r1.shift_date = r2.shift_date) => r1 = r2

\* a bulk load has just filled the week around a row that a slot click had created
\* before it (Tuesday holds id 1, Monday id 2)
C15_Witness ==
  /\ lastOp.op = "loadWeek" /\ lastOp.wrote
  /\ \E r \in shift_instances : r.id = 1 /\ r.shift_date = <<2026, 1, 6>>
  /\ \E r \in shift_instances : r.id = 2 /\ r.shift_date = Monday
  /\ Cardinality({r \in shift_instances : DateLt(r.shift_date, NextMonday)}) = 7

-----------------------------------------------------------------------------
(* Properties of the error paths and of the pushes *)

\* the handlers that write an assignment
WriteOps == {"takeShift", "assign", "approve", "deny", "remove", "drop"}

\* C16: when the store returns an error for an assignment write (self-request upsert,
\* admin-assign upsert, approve, deny, remove or drop update), shift_assignments is
\* unchanged, the handler invokes no push, and it ends there: it makes no second
\* attempt (no row is inserted, no id is consumed).
C16_StoreErrorWritesNothing ==
  [][(lastOp'.op \in WriteOps /\ lastOp'.failed) =>
       /\ shift_assignments' = shift_assignments
       /\ nextAssignmentId' = nextAssignmentId
       /\ lastOp'.pushes = {}
       /\ ~lastOp'.wrote
       /\ lastOp'.message = "error"]_vars

\* the store has just refused a self-request for a pair without a row, and no row was
\* written
C16_Witness ==
  /\ lastOp.op = "takeShift" /\ lastOp.failed /\ lastOp.prior = "none"
  /\ lastPairRows = {}
  /\ lastOp.pushes = {}

C18_DenyNotifiesVolunteer ==
  (lastOp.op = "deny" /\ lastOp.wrote) =>
     /\ lastTargetRows # {}
     /\ \A r \in lastTargetRows : r.volunteer_id \in lastOp.pushes

-----------------------------------------------------------------------------
(* Properties of the drop *)

\* C19: a non-admin can only drop their own assignment: whenever handleDropShift
\* issues its update for a user who is not an admin, the targeted row's volunteer_id
\* is that user's id, and no row of another volunteer is changed by the step.
C19_NonAdminDropsOwnRow ==
  [][(/\ lastOp'.op = "drop" /\ Role[lastOp'.user] # "Admin"
      /\ (lastOp'.wrote \/ lastOp'.failed)) =>
       /\ \A r \in shift_assignments :
             r.id = lastOp'.target => r.volunteer_id = lastOp'.user
       /\ \A r \in shift_assignments :
             r.volunteer_id # lastOp'.user => r \in shift_assignments']_vars

\* the Lead has just dropped their own assignment on a shift where the admin holds an
\* active slot, which is untouched
C19_Witness ==
  /\ lastOp.op = "drop" /\ lastOp.user = "v2" /\ lastOp.wrote
  /\ \E r \in lastTargetRows : r.volunteer_id = "v2" /\ r.status = "dropped"
  /\ \E r \in lastTargetRows : \E other \in shift_assignments :
        /\ other.shift_instance_id = r.shift_instance_id
        /\ other.volunteer_id = "a1"
        /\ other.status = "active"

\* C20: a self-drop by a non-admin submitted with an empty or whitespace-only reason
\* performs no store write: status, dropped_at and dropped_reason of the row stay.
C20_DropNeedsReason ==
  [][(lastOp'.op = "drop" /\ Role[lastOp'.user] # "Admin" /\ lastOp'.blank) =>
       /\ shift_assignments' = shift_assignments
       /\ ~lastOp'.wrote /\ ~lastOp'.failed]_vars

\* the Lead has just submitted a blank drop reason for their own pending request,
\* which is still pending
C20_Witness ==
  /\ lastOp.op = "drop" /\ lastOp.user = "v2" /\ lastOp.blank
  /\ lastOp.message = "required"
  /\ \E r \in lastTargetRows :
        r.status = "pending" /\ r.dropped_at = Null /\ r.dropped_reason = Null

\* the ids of the rows of a table
rowIds(table) == {r.id : r \in table}

\* C21: a step that removes a row from shift_assignments is the deletion of a recurring
\* pattern (handleRecurringDelete); every other operation (request, join, approve, deny,
\* assign, remove, drop, note edit, recurring save) keeps every row id that was stored.
C21_OnlyRecurringDeleteRemovesRows ==
  [][~(rowIds(shift_assignments) \subseteq rowIds(shift_assignments'))
       => lastOp'.op = "recurringDelete"]_vars

\* a recurring delete has removed a row that some operation had inserted
C21_Witness ==
  /\ lastOp.op = "recurringDelete"
  /\ \E o \in origin : o.id \notin rowIds(shift_assignments)

\* the operations that are a run of a push function
PushFunctions == {"send-push", "send-admin-push", "shift-reminder"}

\* a delivery of the step to the row's endpoint failed with 404 or 410
goneDelivery(r, op) ==
  /\ op.op \in PushFunctions
  /\ \E d \in op.deliveries :
        /\ d.user_id = r.user_id /\ d.endpoint = r.endpoint
        /\ d.status \in {404, 410}

\* C22: in a run of send-push, send-admin-push or the shift reminder job a
\* push_subscriptions row is deleted exactly when a delivery to its endpoint failed
\* with HTTP status 404 or 410; a row whose delivery succeeded or failed with any other
\* status, and a row the run did not deliver to, is kept.
C22_PrunedIffGone ==
  [][\A r \in push_subscriptions :
        (r \notin push_subscriptions') <=> goneDelivery(r, lastOp')]_vars

\* a run delivered to two rows of one user: one answered 410 and is gone, the other
\* answered 500 and is kept
C22_Witness ==
  /\ lastOp.op \in PushFunctions
  /\ \E d, e \in lastOp.deliveries :
        /\ d.user_id = e.user_id
        /\ d.status = 410 /\ e.status = 500
        /\ [user_id |-> d.user_id, endpoint |-> d.endpoint] \notin push_subscriptions
        /\ [user_id |-> e.user_id, endpoint |-> e.endpoint] \in push_subscriptions

\* the key the materialization checks before it inserts
instanceKey(r) == <<r.template_id, r.shift_date>>

\* the insert of row `late` was sent by a week load whose read of the existing rows
\* came before row `early` was inserted
checkedBefore(late, early) ==
  \E m \in materialized : m.id = late.id /\ m.seen <= early.id

\* C23: two shift_instances rows for one (template_id, shift_date) come from
\* materializations that overlap: the later row was inserted by a load that had read
\* "no existing row" before the earlier row was inserted. Such a state is reachable.
C23_DuplicateOnlyByOverlap ==
  \A early, late \in shift_instances :
     (instanceKey(early) = instanceKey(late) /\ early.id < late.id)
        => checkedBefore(late, early)

\* two rows of one (template_id, shift_date), inserted by two loads that both read the
\* week before either inserted
C23_Witness ==
  \E early, late \in shift_instances :
     /\ instanceKey(early) = instanceKey(late)
     /\ early.id < late.id
     /\ \E m, n \in materialized :
           /\ m.id = early.id /\ n.id = late.id
           /\ m.seen <= early.id /\ n.seen <= early.id

\* C24: a remove or a deny by an admin changes only rows that are not already dropped:
\* a row that was dropped before the step (a volunteer's self-drop with a reason) is
\* stored unchanged after it, with the dropped_at and dropped_reason it had.
C24_AdminKeepsDroppedRows ==
  [][lastOp'.op \in {"remove", "deny"}
       => \A r \in shift_assignments : r.status = "dropped" => r \in shift_assignments']_vars

\* the active and pending rows of a shift instance
liveRows(instanceId) ==
  {r \in shift_assignments : /\ r.shift_instance_id = instanceId
                              /\ r.status \in {"active", "pending"}}

\* C25: after any sequence of self-requests, admin assignments, approvals and recurring
\* saves the number of non-dropped (active or pending) assignments of one shift
\* instance never exceeds 6, the number of rendered capacity slots.
C25_AtMostSixLive ==
  \A i \in shift_instances : Cardinality(liveRows(i.id)) <= SlotCount

\* C26: a Regular Volunteer never creates an assignment by claiming the empty slot 0
\* ("Needs Lead Coverage"): in their week view the empty slot 0 of every shift is
\* disabled, no take-shift prompt of theirs was opened from slot 0, and no row they
\* wrote through the prompt came from slot 0.
C26_RegularCannotClaimLeadSlot ==
  /\ \A u \in online :
        Role[u] = "Regular Volunteer" =>
           /\ \A shift \in dayShifts(u) :
                 slotAssignment(u, shift, 0) = Null => slotDisabled(u, Null, 0)
           /\ ~(ui[u].show = "TakeShiftPrompt" /\ ui[u].leadSlot)
  /\ (lastOp.op = "takeShift" /\ lastOp.wrote /\ Role[lastOp.user] = "Regular Volunteer")
        => ~lastOp.leadSlot

\* a Regular Volunteer has requested a shift from another slot while slot 0 of the
\* shift is shown empty to them
C26_Witness ==
  /\ lastOp.op = "takeShift" /\ lastOp.wrote
  /\ Role[lastOp.user] = "Regular Volunteer"
  /\ \E shift \in dayShifts(lastOp.user) :
        /\ shift.instanceId = lastOp.instance
        /\ slotAssignment(lastOp.user, shift, 0) = Null
        /\ slotAssignment(lastOp.user, shift, 1) # Null
\* the days of the week client u is viewing, as date keys
visibleDays(u) == {getDateKey(addDays(weekStartOf(weekOffset[u]), i)) : i \in 0..6}

\* the shifts of template t on day d in the list client u displays
shownFor(u, t, d) ==
  {sh \in instanceShifts[u] : sh.templateId = t /\ getDateKey(sh.start) = d}

\* C27: after a week load whose bulk insert of the missing instances failed and whose
\* final read succeeded, the displayed list holds, for every active template and each
\* of the 7 visible days, an instance, which is either a persisted row or a virtual
\* one with a negative id, and exactly one unless the store itself holds two rows of
\* that template and day; so the week is not empty while an active template exists.
C27_FallbackFillsWeek ==
  (lastOp.op = "loadWeek" /\ lastOp.failed /\ lastOp.read) =>
     \A k \in 1..Len(templates) : templates[k].is_active =>
        \A d \in visibleDays(lastOp.user) :
           /\ shownFor(lastOp.user, templates[k].id, d) # {}
           /\ (\A r1, r2 \in shift_instances :
                  (r1.template_id = templates[k].id /\ r2.template_id = r1.template_id
                     /\ r1.shift_date = d /\ r2.shift_date = d) => r1 = r2)
                => Cardinality(shownFor(lastOp.user, templates[k].id, d)) = 1
           /\ \A sh \in shownFor(lastOp.user, templates[k].id, d) :
                 IF sh.isVirtual THEN sh.instanceId < 0
                 ELSE \E r \in shift_instances : r.id = sh.instanceId

\* a load whose insert failed shows a week made of a persisted instance (created by
\* an earlier click) and virtual ones
C27_Witness ==
  /\ lastOp.op = "loadWeek" /\ lastOp.failed /\ lastOp.read
  /\ \E sh \in instanceShifts[lastOp.user] : sh.isVirtual /\ sh.instanceId < 0
  /\ \E sh \in instanceShifts[lastOp.user] : ~sh.isVirtual
  /\ \E k \in 1..Len(templates) : templates[k].is_active
\* C28: the weekAssignments cache is replaced only by the most recently issued
\* fetch: a response that arrives after the response of a later fetchWeekAssignments
\* call of the same client has been stored leaves the cache as it is.
C28_StaleFetchIgnored ==
  [][(lastOp'.op = "fetchDelivered" /\ lastOp'.target < fetchSeq[lastOp'.user].applied)
       => weekAssignments'[lastOp'.user] = weekAssignments[lastOp'.user]]_vars
\* the assignment rows that pattern `id` generated
generatedBy(table, id) ==
  {r \in table : [id |-> r.id, by |-> "recurring", pattern |-> id] \in origin}

C29_WitnessDeleted ==
  /\ lastOp.op = "recurringDelete" /\ lastOp.wrote
  /\ recurring_assignments = {}
  /\ \E o \in origin : o.by = "recurring" /\ o.pattern = lastOp.target
\* the starts_at of the shift instance of assignment row `id`
startOfAssignment(id) ==
  LET a == CHOOSE r \in shift_assignments : r.id = id
  IN (CHOOSE i \in shift_instances : i.id = a.shift_instance_id).starts_at

\* C30: a run of the reminder job at `now` sends a "Shift reminder" push only for
\* active assignments whose shift instance starts in [now + 2h, now + 2h + 10min):
\* an active assignment on an instance that starts outside the window gets none.
C30_ReminderOnlyInWindow ==
  lastOp.op = "shift-reminder" =>
     \A d \in lastOp.deliveries :
        /\ startOfAssignment(d.assignment) >= lastOp.now + ReminderLeadMinutes
        /\ startOfAssignment(d.assignment)
              < lastOp.now + ReminderLeadMinutes + ReminderWindowMinutes
====
